---- MODULE Spec2Model ----
(***************************************************************************)
(* A model of the LinkedIn outreach pipeline: the connection-request       *)
(* state machine of ConnectionManager (with the ProfileScraper it owns     *)
(* and the MessageGenerator it calls), the multi-strategy resolver of      *)
(* ElementDetector, and the discovery engine of ProspectDiscoverer with    *)
(* the two persistence steps that follow it.                               *)
(*                                                                         *)
(* Everything outside the Python process (the page, the text-generation    *)
(* API, the search result pages) is a nondeterministic choice made at the  *)
(* step that consults it.                                                  *)
(***************************************************************************)
EXTENDS Integers, Sequences, FiniteSets, TLC

VARIABLES
    \* ---- ConnectionManager.send_bulk_requests ----
    n_prospects,          \* len(prospects), the caller's list
    max_requests,         \* the caller's cap
    i,                    \* enumerate index of the loop (0-based)
    successful_requests,
    results,              \* the list being returned
    pc,                   \* position of the single coroutine
    waits,                \* seconds awaited by asyncio.sleep since the last attempt ended
    \* ---- ConnectionManager.send_connection_request ----
    prospect,             \* what the current prospect's page holds
    result,               \* the result dict of the attempt in progress
    generated_message,    \* the GeneratedMessage of this attempt
    attempt,              \* loop variable of _find_connect_button
    gen_calls,            \* calls of generate_personalized_message in this attempt
    find_calls,           \* calls of detector.find_connect_button in this attempt
    send_clicked,         \* the send control was resolved and clicked in this attempt
    extract_ok,           \* the page.goto of extract_profile_data succeeded in this attempt
    backoffs,             \* sleeps of _find_connect_button in this attempt
    backoff,              \* seconds slept since the last lookup of the loop (0: none)
    connect_clicked,      \* connect_button.click() was called in this attempt
    modal_entered,        \* _handle_connection_modal was called in this attempt
    field_text,           \* the text of the message field as this attempt left it
    gotos,                \* page.goto calls of send_connection_request in this attempt
    \* ---- ProfileScraper ----
    profile_data,         \* self.profile_data, one object for the scraper's life
    \* ---- ElementDetector.find_connect_button / find_message_input / find_send_button ----
    det_text,             \* 'Connect', 'message' or 'Send': which finder runs
    det_pc,               \* "idle", "run", "returned"
    det_k,                \* index of the strategy the for loop is at (1-based)
    det_trace,            \* the strategies evaluated so far, each with what it gave
    det_returned,         \* what the finder returned
    selectors_config,     \* self.selectors_config, loaded by __init__
    \* ---- ConnectionManager.check_connection_status ----
    st_pc,                \* "idle", "probe", "returned"
    st_loaded,            \* page.goto of the call succeeded
    st_k,                 \* position in the nested loops over status_selectors (1-based)
    st_trace,             \* what is_visible gave for each selector probed so far
    st_status,            \* the status returned
    \* ---- ProspectDiscoverer and the prospect store ----
    store,                \* .data/prospects.json, the persisted prospects
    surface,              \* what each search query's result page lists
    max_prospects,        \* the caller's prospect cap
    max_searches,         \* rate_limiting.max_searches_per_session
    runs,                 \* discovery runs started so far
    dpc,                  \* position of the discovery coroutine
    d_strategy,           \* 1: job title x location, 2: company x job title
    q,                    \* position in the current strategy's query list
    pending,              \* profiles of the current search not yet processed
    search_count,
    existing_urls,        \* URLs of the store as loaded at the start of the run
    discovered_prospects, \* self.discovered_prospects
    duplicates_found,
    validation_errors,
    first_extracted,      \* per URL, the first entry of the run handed to _process_profile
    flaky,                \* a search or a visit of a public profile failed at some time
    pre_final,            \* self.discovered_prospects as the final pass received it
    cooldown,             \* seconds slept after the last search (0: none)
    nav_tries,            \* page.goto calls of the search whose profiles are about to be processed
    off_target_dropped,   \* entries of this run dropped for a job title without a relevant keyword
    visit_log,            \* the profile pages this run navigated to: visited, revisited, with_marker
    handed,               \* calls of _process_profile in this run
    \* ---- one search of SearchStrategies ----
    se_page,              \* what the browser shows at the search URL: markers, title, result items
    se_pc,                \* "idle" | "returned"
    se_kind,              \* which search method ran last
    se_probes,            \* the is_visible probes of _validate_search_results, in the order made
    se_valid,             \* "not_run" | "valid" | "invalid": the answer of _validate_search_results
    se_extracted,         \* TRUE once _extract_profiles_from_search_results was called
    se_profiles,          \* the list the search returned
    \* ---- LinkedInAutomationWorkflow ----
    wf_setup,             \* what the run finds: cookies file, API key, number of prospects passed
    wf_pc,                \* "idle" | "returned"
    wf_calls,             \* entry points called so far
    wf_last,              \* the entry point that returned last
    wf_session,           \* self.page and self.connection_manager are set
    wf_navigations,       \* page.goto calls of the last call
    wf_attempts,          \* send_connection_request calls of the last call
    wf_results,           \* the attempt results the last call produced
    wf_result,            \* what the last call returned: success, errors reported
    sent_log,             \* sent_requests.json
    failed_log,           \* failed_requests.json
    \* ---- DiscoveryWorkflow.run_complete_workflow on the event loop ----
    dw_pc,                \* where the main task stands in run_complete_workflow
    dw_stage,             \* the awaited operation of the try block it is at
    dw_waiting,           \* the main task is suspended on a future
    dw_resumed,           \* the future it was suspended on has been resolved
    dw_browser,           \* self.browser is set
    dw_context,           \* self.context exists
    dw_failed,            \* the except clause of line 76 was entered
    cleanup_suspended,    \* _cleanup suspended the main task at least once
    loop_running,         \* "loop": between callbacks, "main": a step of the main task, "closed"
    loop_ready,           \* the loop's queue of ready callbacks, first in first out
    loop_batch,           \* callbacks of the current iteration still to run
    loop_stopping,        \* stop() was called
    save_task,            \* the task of _create_error_summary
    workflow_summaries    \* the run-summary sink, workflow_summary.json

connVars == <<gotos, n_prospects, max_requests, i, successful_requests, results, pc, waits,
              prospect, result, generated_message, attempt, gen_calls, find_calls,
              send_clicked, extract_ok, backoffs, backoff, connect_clicked, modal_entered, field_text,
              profile_data>>

\* ------------------------------------------------------------------------
\* Bounds of the model
\* ------------------------------------------------------------------------
MaxProspects == 3
MaxRequests == 2

\* ------------------------------------------------------------------------
\* Text: a string is the sequence of its characters
\* ------------------------------------------------------------------------
Strings ==
    {"Insufficient profile data for personalization", "Could not find Connect button",
     "Failed to send message in connection modal", "Too Many Requests", "",
     "https://www.linkedin.com/in/a",
     "https://www.linkedin.com/in/b",
     "/in/c",
     "https://www.linkedin.com/in/d",
     "https://www.linkedin.com/in/e",
     "HTTPS://www.linkedin.com/in/f",
     "Fay",
     "Al",
     "Ali",
     "Bo",
     "Cy",
     "Di",
     "Ed",
     "Recruiter",
     " Recruiter ",
     "Engineer",
     "NY",
     "Acme",
     "linkedin_search"}

Chars(s) ==
    CASE s = "Insufficient profile data for personalization" -> <<"I", "n", "s", "u", "f", "f", "i", "c", "i", "e", "n", "t", " ", "p", "r", "o", "f", "i", "l", "e", " ", "d", "a", "t", "a", " ", "f", "o", "r", " ", "p", "e", "r", "s", "o", "n", "a", "l", "i", "z", "a", "t", "i", "o", "n">>
      [] s = "Could not find Connect button" -> <<"C", "o", "u", "l", "d", " ", "n", "o", "t", " ", "f", "i", "n", "d", " ", "C", "o", "n", "n", "e", "c", "t", " ", "b", "u", "t", "t", "o", "n">>
      [] s = "Failed to send message in connection modal" -> <<"F", "a", "i", "l", "e", "d", " ", "t", "o", " ", "s", "e", "n", "d", " ", "m", "e", "s", "s", "a", "g", "e", " ", "i", "n", " ", "c", "o", "n", "n", "e", "c", "t", "i", "o", "n", " ", "m", "o", "d", "a", "l">>
      [] s = "Too Many Requests" -> <<"T", "o", "o", " ", "M", "a", "n", "y", " ", "R", "e", "q", "u", "e", "s", "t", "s">>
      [] s = "https://www.linkedin.com/in/a" -> <<"h", "t", "t", "p", "s", ":", "/", "/", "w", "w", "w", ".", "l", "i", "n", "k", "e", "d", "i", "n", ".", "c", "o", "m", "/", "i", "n", "/", "a">>
      [] s = "https://www.linkedin.com/in/b" -> <<"h", "t", "t", "p", "s", ":", "/", "/", "w", "w", "w", ".", "l", "i", "n", "k", "e", "d", "i", "n", ".", "c", "o", "m", "/", "i", "n", "/", "b">>
      [] s = "/in/c" -> <<"/", "i", "n", "/", "c">>
      [] s = "https://www.linkedin.com/in/d" -> <<"h", "t", "t", "p", "s", ":", "/", "/", "w", "w", "w", ".", "l", "i", "n", "k", "e", "d", "i", "n", ".", "c", "o", "m", "/", "i", "n", "/", "d">>
      [] s = "https://www.linkedin.com/in/e" -> <<"h", "t", "t", "p", "s", ":", "/", "/", "w", "w", "w", ".", "l", "i", "n", "k", "e", "d", "i", "n", ".", "c", "o", "m", "/", "i", "n", "/", "e">>
      [] s = "HTTPS://www.linkedin.com/in/f" -> <<"H", "T", "T", "P", "S", ":", "/", "/", "w", "w", "w", ".", "l", "i", "n", "k", "e", "d", "i", "n", ".", "c", "o", "m", "/", "i", "n", "/", "f">>
      [] s = "Fay" -> <<"F", "a", "y">>
      [] s = "Al" -> <<"A", "l">>
      [] s = "Ali" -> <<"A", "l", "i">>
      [] s = "Bo" -> <<"B", "o">>
      [] s = "Cy" -> <<"C", "y">>
      [] s = "Di" -> <<"D", "i">>
      [] s = "Ed" -> <<"E", "d">>
      [] s = "Recruiter" -> <<"R", "e", "c", "r", "u", "i", "t", "e", "r">>
      [] s = " Recruiter " -> <<" ", "R", "e", "c", "r", "u", "i", "t", "e", "r", " ">>
      [] s = "Engineer" -> <<"E", "n", "g", "i", "n", "e", "e", "r">>
      [] s = "NY" -> <<"N", "Y">>
      [] s = "Acme" -> <<"A", "c", "m", "e">>
      [] s = "linkedin_search" -> <<"l", "i", "n", "k", "e", "d", "i", "n", "_", "s", "e", "a", "r", "c", "h">>
      [] s = "" -> <<>>

UpperToLower ==
    ("A" :> "a") @@ ("B" :> "b") @@ ("C" :> "c") @@ ("D" :> "d") @@ ("E" :> "e") @@ ("F" :> "f") @@ ("G" :> "g") @@ ("H" :> "h") @@ ("I" :> "i") @@ ("J" :> "j") @@ ("K" :> "k") @@ ("L" :> "l") @@ ("M" :> "m") @@ ("N" :> "n") @@ ("O" :> "o") @@ ("P" :> "p") @@ ("Q" :> "q") @@ ("R" :> "r") @@ ("S" :> "s") @@ ("T" :> "t") @@ ("U" :> "u") @@ ("V" :> "v") @@ ("W" :> "w") @@ ("X" :> "x") @@ ("Y" :> "y") @@ ("Z" :> "z")

\* str.lower()
Lower(t) == [k \in 1..Len(t) |-> IF t[k] \in DOMAIN UpperToLower THEN UpperToLower[t[k]] ELSE t[k]]

\* `needle in hay`
Contains(hay, needle) ==
    \E s \in 0..(Len(hay) - Len(needle)) :
        \A k \in 1..Len(needle) : hay[s + k] = needle[k]

\* str.strip()
RECURSIVE LStrip(_)
LStrip(t) == IF t # <<>> /\ Head(t) = " " THEN LStrip(Tail(t)) ELSE t

RECURSIVE RStrip(_)
RStrip(t) == IF t # <<>> /\ t[Len(t)] = " " THEN RStrip(SubSeq(t, 1, Len(t) - 1)) ELSE t

Strip(t) == RStrip(LStrip(t))

\* the string with these characters
Str(t) == CHOOSE s \in Strings : Chars(s) = t

\* s.strip(), s.lower(), len(s), `sub in s`, s.startswith(prefix) on strings
StripStr(s) == Str(Strip(Chars(s)))
LenStr(s) == Len(Chars(s))
InStr(sub, s) == Contains(Chars(s), sub)
InLowerStr(sub, s) == Contains(Lower(Chars(s)), sub)
StartsWith(s, prefix) ==
    /\ Len(prefix) <= LenStr(s)
    /\ SubSeq(Chars(s), 1, Len(prefix)) = prefix


\* ------------------------------------------------------------------------
\* The pages of the prospects the bulk run is given.  A prospect is what the
\* caller's dict and the live profile page hold: whether the dict has the
\* 'linkedin_url' key, and which field groups the page shows.
\* ------------------------------------------------------------------------
Page(has_url, name, headline, job_title, company, summary, skills, experience, education, recent_posts) ==
    [has_url |-> has_url, name |-> name, headline |-> headline, job_title |-> job_title,
     company |-> company, summary |-> summary, skills |-> skills,
     experience |-> experience, education |-> education, recent_posts |-> recent_posts]

\* every field group present
FullPage == Page(TRUE, TRUE, TRUE, TRUE, TRUE, TRUE, TRUE, TRUE, TRUE, TRUE)
\* headline "Recruiter at ": job title parsed, company parsed empty
NoCompanyPage == Page(TRUE, TRUE, TRUE, TRUE, FALSE, TRUE, TRUE, TRUE, TRUE, TRUE)
\* identity present, only skills and education besides: score 2
LowScorePage == Page(TRUE, TRUE, TRUE, TRUE, TRUE, FALSE, TRUE, FALSE, TRUE, FALSE)
\* identity present, summary and skills: score 3
ThresholdPage == Page(TRUE, TRUE, TRUE, TRUE, TRUE, TRUE, TRUE, FALSE, FALSE, FALSE)
\* nothing matches (private or blocked profile)
BlankPage == Page(TRUE, FALSE, FALSE, FALSE, FALSE, FALSE, FALSE, FALSE, FALSE, FALSE)
\* a prospect dict without the 'linkedin_url' key
NoKeyProspect == Page(FALSE, FALSE, FALSE, FALSE, FALSE, FALSE, FALSE, FALSE, FALSE, FALSE)

Prospects == {FullPage, NoCompanyPage, LowScorePage, ThresholdPage, BlankPage, NoKeyProspect}

\* ------------------------------------------------------------------------
\* ProfileScraper.  A scalar field holds 0 when empty, else the number of the
\* prospect whose page it was read from; a list field holds the set of
\* prospects whose pages contributed entries to it.
\* ------------------------------------------------------------------------
ProfileData ==
    [name |-> 0, job_title |-> 0, company |-> 0, summary |-> 0,
     skills |-> {}, experience |-> {}, education |-> {}, recent_posts |-> {}]

\* _extract_basic_info, _extract_professional_info, _extract_additional_info:
\* a scalar is assigned only when its selector matched, a list is appended to.
extract_fields(pd, page, who) ==
    [name         |-> IF page.name THEN who ELSE pd.name,
     job_title    |-> IF page.headline THEN (IF page.job_title THEN who ELSE 0) ELSE pd.job_title,
     company      |-> IF page.headline THEN (IF page.company THEN who ELSE 0) ELSE pd.company,
     summary      |-> IF page.summary THEN who ELSE pd.summary,
     skills       |-> IF page.skills THEN pd.skills \cup {who} ELSE pd.skills,
     experience   |-> IF page.experience THEN pd.experience \cup {who} ELSE pd.experience,
     education    |-> IF page.education THEN pd.education \cup {who} ELSE pd.education,
     recent_posts |-> IF page.recent_posts THEN pd.recent_posts \cup {who} ELSE pd.recent_posts]

\* an extract_profile_data whose scroll simulation succeeds, so that the
\* three extraction steps run on the loaded page
extract_profile_data_scroll_succeeds(pd, page, who, nav_ok) ==
    IF nav_ok THEN extract_fields(pd, page, who) ELSE pd

\* ElementDetector (element_detector.py) defines find_connect_button,
\* find_message_input, find_send_button, the _find_by_* strategies,
\* wait_for_element_with_retry and detect_page_type, and no
\* simulate_human_behavior: the call at profile_scraper.py line 61 raises
\* AttributeError.
detector_simulate_human_behavior_raises == TRUE

\* extract_profile_data, lines 54-73: page.goto may raise; when it does not,
\* line 61 raises before the extraction steps of lines 64-66; either way the
\* except of lines 71-73 returns self.profile_data as it stands.
extract_profile_data(pd, page, who, nav_ok) ==
    IF nav_ok /\ ~detector_simulate_human_behavior_raises
    THEN extract_fields(pd, page, who)
    ELSE pd

context_score(pd) ==
      (IF pd.summary # 0 THEN 2 ELSE 0)
    + (IF pd.skills # {} THEN 1 ELSE 0)
    + (IF pd.experience # {} THEN 2 ELSE 0)
    + (IF pd.education # {} THEN 1 ELSE 0)
    + (IF pd.recent_posts # {} THEN 2 ELSE 0)

missing_fields(pd) ==
    {f \in {"name", "job_title", "company"} : pd[f] = 0}

\* a validation that accepts a score of 2
validate_profile_data_low_threshold(pd) ==
    /\ missing_fields(pd) = {}
    /\ context_score(pd) >= 2

validate_profile_data(pd) ==
    /\ missing_fields(pd) = {}
    /\ context_score(pd) >= 3

\* ------------------------------------------------------------------------
\* MessageGenerator
\* ------------------------------------------------------------------------
Min(a, b) == IF a < b THEN a ELSE b

\* "LinkedIn has 300 character limit for connection notes",
\* message_generator.py line 164
NoteLimit == 300

\* the note field of the modal takes NoteLimit characters, or any number (0)
FieldLimits == {0, NoteLimit}

\* a content longer than a connection note can be (max_tokens = 300 tokens,
\* line 48, allows it)
LongContent == [k \in 1..(NoteLimit + 1) |-> "x"]

\* what choice.message.content can be: text, blanks only, or a long text
ApiContents == { <<"H", "i">>, <<" ", "H", "i", " ">>, <<" ">>, LongContent }

\* the API call: it raises (or its response fails a check), or returns content
ApiResponses ==
    {[failed |-> FALSE, content |-> c] : c \in ApiContents}
        \cup {[failed |-> TRUE, content |-> <<>>]}

\* generate_fallback_message: every template is a non-empty text
generate_fallback_message == <<"H", "e", "l", "l", "o">>

\* generate_personalized_message: the stripped content, or the fallback when
\* anything in the try block raised
generate_personalized_message(api) ==
    IF api.failed
    THEN [message |-> generate_fallback_message, fallback_used |-> TRUE]
    ELSE [message |-> Strip(api.content), fallback_used |-> FALSE]

NoMessage == [message |-> <<>>, fallback_used |-> FALSE]


\* ------------------------------------------------------------------------
\* ConnectionManager.send_connection_request, one step per await
\* ------------------------------------------------------------------------
\* str(e) of an exception a page call raises
ExceptionTexts == {"Too Many Requests", ""}

\* random.uniform(30, 120) between requests: the ends of the range
InterRequestDelayMin == 30
InterRequestDelayMax == 120
InterRequestDelays == {InterRequestDelayMin, InterRequestDelayMax}

\* range(3) of _find_connect_button
FindAttempts == 3

NewResult(url) ==
    [success |-> FALSE, profile_url |-> url, message_sent |-> <<>>, error |-> "",
     retry_count |-> 0, time_taken |-> 0]

attemptVars == <<prospect, result, generated_message, attempt, gen_calls, find_calls,
                 send_clicked, extract_ok, backoffs, backoff, connect_clicked, modal_entered, field_text>>
bulkVars == <<n_prospects, max_requests, i, successful_requests, results, waits>>

\* lines 43-46 and 84-86: page.goto and the scroll simulation, or what they raise
Navigate ==
    /\ pc = "goto"
    /\ gotos' = gotos + 1
    /\ \/ /\ pc' = "extract"
          /\ UNCHANGED result
       \/ \E e \in ExceptionTexts :
            /\ result' = [result EXCEPT !.error = e]
            /\ pc' = "ret"
    /\ UNCHANGED <<bulkVars, profile_data, prospect, generated_message, attempt,
                   gen_calls, find_calls, send_clicked, extract_ok>>
    /\ UNCHANGED <<backoffs, backoff, connect_clicked, modal_entered, field_text>>

\* line 49
ExtractProfileData ==
    /\ pc = "extract"
    /\ UNCHANGED gotos
    /\ \E nav_ok \in BOOLEAN :
         /\ profile_data' = extract_profile_data(profile_data, prospect, i + 1, nav_ok)
         /\ extract_ok' = nav_ok
    /\ pc' = "validate"
    /\ UNCHANGED <<bulkVars, prospect, result, generated_message, attempt, gen_calls,
                   find_calls, send_clicked>>
    /\ UNCHANGED <<backoffs, backoff, connect_clicked, modal_entered, field_text>>

\* lines 51-54
ValidateProfileData ==
    /\ pc = "validate"
    /\ UNCHANGED gotos
    /\ IF validate_profile_data(profile_data)
       THEN /\ pc' = "generate"
            /\ UNCHANGED result
       ELSE /\ result' = [result EXCEPT !.error = "Insufficient profile data for personalization"]
            /\ pc' = "ret"
    /\ UNCHANGED <<bulkVars, profile_data, prospect, generated_message, attempt,
                   gen_calls, find_calls, send_clicked, extract_ok>>
    /\ UNCHANGED <<backoffs, backoff, connect_clicked, modal_entered, field_text>>

\* lines 56-61
GenerateMessage ==
    /\ pc = "generate"
    /\ UNCHANGED gotos
    /\ \E api \in ApiResponses :
         generated_message' = generate_personalized_message(api)
    /\ gen_calls' = gen_calls + 1
    /\ pc' = "find"
    /\ UNCHANGED <<bulkVars, profile_data, prospect, result, attempt, find_calls, send_clicked,
                   extract_ok>>
    /\ UNCHANGED <<backoffs, backoff, connect_clicked, modal_entered, field_text>>

\* _find_connect_button with a loop of one attempt too many
\* random.uniform(1, 3) after a lookup that gave no visible button, line 105
FindBackoffMin == 1
FindBackoffMax == 3
FindBackoffs == {FindBackoffMin, FindBackoffMax}

FindConnectButtonExtraAttempt ==
    /\ pc = "find"
    /\ UNCHANGED gotos
    /\ IF attempt < FindAttempts + 1
       THEN /\ find_calls' = find_calls + 1
            /\ \/ /\ pc' = "click"
                  /\ backoff' = 0
                  /\ UNCHANGED <<attempt, backoffs>>
               \/ /\ attempt' = attempt + 1
                  /\ backoffs' = backoffs + 1 /\ backoff' \in FindBackoffs
                  /\ pc' = "find"
            /\ UNCHANGED result
       ELSE /\ result' = [result EXCEPT !.error = "Could not find Connect button"]
            /\ pc' = "ret"
            /\ backoff' = 0
            /\ UNCHANGED <<attempt, find_calls, backoffs>>
    /\ UNCHANGED <<bulkVars, profile_data, prospect, generated_message, gen_calls, send_clicked,
                   extract_ok, connect_clicked, modal_entered, field_text>>

\* _find_connect_button sleeping between lookups only, not after the last one
FindConnectButtonSleepsBetween ==
    /\ pc = "find"
    /\ UNCHANGED gotos
    /\ IF attempt < FindAttempts
       THEN /\ find_calls' = find_calls + 1
            /\ \/ /\ pc' = "click"
                  /\ backoff' = 0
                  /\ UNCHANGED <<attempt, backoffs>>
               \/ /\ attempt' = attempt + 1
                  /\ IF attempt + 1 < FindAttempts
                     THEN backoffs' = backoffs + 1 /\ backoff' \in FindBackoffs
                     ELSE backoff' = 0 /\ UNCHANGED backoffs
                  /\ pc' = "find"
            /\ UNCHANGED result
       ELSE /\ result' = [result EXCEPT !.error = "Could not find Connect button"]
            /\ pc' = "ret"
            /\ backoff' = 0
            /\ UNCHANGED <<attempt, find_calls, backoffs>>
    /\ UNCHANGED <<bulkVars, profile_data, prospect, generated_message, gen_calls, send_clicked,
                   extract_ok, connect_clicked, modal_entered, field_text>>

\* lines 63-67 and _find_connect_button (90-107): one pass of the loop, or its
\* exhaustion.  A pass calls detector.find_connect_button once; it returns the
\* button when the call gave a visible one, else (none, not visible, raised) it
\* sleeps and goes round.
FindConnectButton ==
    /\ pc = "find"
    /\ UNCHANGED gotos
    /\ IF attempt < FindAttempts
       THEN /\ find_calls' = find_calls + 1
            /\ \/ /\ pc' = "click"
                  /\ backoff' = 0
                  /\ UNCHANGED <<attempt, backoffs>>
               \/ /\ attempt' = attempt + 1
                  /\ backoffs' = backoffs + 1 /\ backoff' \in FindBackoffs
                  /\ pc' = "find"
            /\ UNCHANGED result
       ELSE /\ result' = [result EXCEPT !.error = "Could not find Connect button"]
            /\ pc' = "ret"
            /\ backoff' = 0
            /\ UNCHANGED <<attempt, find_calls, backoffs>>
    /\ UNCHANGED <<bulkVars, profile_data, prospect, generated_message, gen_calls, send_clicked,
                   extract_ok, connect_clicked, modal_entered, field_text>>

\* lines 69-70 and 84-86
ClickConnect ==
    /\ pc = "click"
    /\ UNCHANGED gotos
    /\ \/ /\ pc' = "modal"
          /\ UNCHANGED result
       \/ \E e \in ExceptionTexts :
            /\ result' = [result EXCEPT !.error = e]
            /\ pc' = "ret"
    /\ UNCHANGED <<bulkVars, profile_data, prospect, generated_message, attempt,
                   gen_calls, find_calls, send_clicked, extract_ok>>
    /\ connect_clicked' = TRUE
    /\ UNCHANGED <<backoffs, backoff, modal_entered, field_text>>

\* how far _handle_connection_modal gets on the live page
ModalOutcomes == {"no_modal", "no_input", "typing_raised", "no_send", "send_click_raised",
                  "raised_after_send_click", "sent"}

\* _handle_connection_modal: True only on the path that clicked the send control
handle_connection_modal(outcome) == outcome = "sent"

\* what _find_by_contenteditable leaves in the field it returns: it types
\* "test" and presses Backspace once (element_detector.py lines 257-259)
ContentEditableResidue == <<"t", "e", "s">>

\* the text the message field holds when find_message_input has returned it
FieldOnEntry(via_contenteditable) ==
    IF via_contenteditable THEN ContentEditableResidue ELSE <<>>

\* lines 128-129: message_input.type(char) for each character of the message
\* in order, on a field that takes at most `limit` characters (0: no limit):
\* the characters are entered after the text already there, and a character
\* beyond the limit is not entered
type_message(text, message, limit) ==
    IF limit = 0 THEN text \o message
    ELSE IF Len(text) >= limit THEN text
    ELSE SubSeq(text \o message, 1, Min(limit, Len(text) + Len(message)))

\* a modal that types the message without clearing the field first
field_after_modal_without_clearing(outcome, message, via_contenteditable, limit) ==
    CASE outcome = "no_modal" -> {<<>>}
      [] outcome = "no_input" -> {<<>>, FieldOnEntry(via_contenteditable)}
      [] outcome = "typing_raised" ->
            {FieldOnEntry(via_contenteditable),
             type_message(FieldOnEntry(via_contenteditable),
                          SubSeq(message, 1, Len(message) - 1), limit)}
      [] OTHER -> {type_message(FieldOnEntry(via_contenteditable), message, limit)}

\* lines 111-140: the text of the message field when _handle_connection_modal
\* ends.  Lines 123-125 select all and delete, lines 128-129 type the message;
\* a raise in between leaves the field as it was, cleared, or typed in part.
field_after_modal(outcome, message, via_contenteditable, limit) ==
    CASE outcome = "no_modal" -> {<<>>}
      [] outcome = "no_input" -> {<<>>, FieldOnEntry(via_contenteditable)}
      [] outcome = "typing_raised" ->
            {FieldOnEntry(via_contenteditable), <<>>,
             type_message(<<>>, SubSeq(message, 1, Len(message) - 1), limit)}
      [] OTHER -> {type_message(<<>>, message, limit)}

\* lines 72-82
HandleConnectionModal ==
    /\ pc = "modal"
    /\ UNCHANGED gotos
    /\ \E outcome \in ModalOutcomes, via_contenteditable \in BOOLEAN, limit \in FieldLimits :
         /\ send_clicked' = (outcome \in {"sent", "raised_after_send_click"})
         /\ field_text' \in field_after_modal(outcome, generated_message.message,
                                        via_contenteditable, limit)
         /\ IF handle_connection_modal(outcome)
            THEN result' = [result EXCEPT !.success = TRUE,
                                          !.message_sent = generated_message.message,
                                          !.time_taken = 1]
            ELSE result' = [result EXCEPT !.error = "Failed to send message in connection modal"]
    /\ modal_entered' = TRUE
    /\ pc' = "ret"
    /\ UNCHANGED <<bulkVars, profile_data, prospect, generated_message, attempt,
                   gen_calls, find_calls, extract_ok, backoffs, backoff, connect_clicked>>


\* ------------------------------------------------------------------------
\* ConnectionManager.send_bulk_requests
\* ------------------------------------------------------------------------
NoProspect == NoKeyProspect


\* the loop over the whole list
bulk_limit_unsliced(n, cap) == n

\* len(prospects[:max_requests]) for a cap >= 0
bulk_limit(n, cap) == Min(n, cap)

\* a loop that also sleeps before the first request
BulkLoopSleepsBeforeFirst ==
    /\ pc = "loop"
    /\ UNCHANGED gotos
    /\ IF i >= bulk_limit(n_prospects, max_requests) \/ successful_requests >= max_requests
       THEN /\ pc' = "done"
            /\ UNCHANGED <<waits, prospect, result>>
       ELSE \E p \in Prospects, d \in InterRequestDelays :
              /\ waits' = <<d>>
              /\ IF p.has_url
                 THEN /\ prospect' = p
                      /\ result' = NewResult(i + 1)
                      /\ pc' = "goto"
                 ELSE /\ pc' = "raised"
                      /\ UNCHANGED <<prospect, result>>
    /\ UNCHANGED <<n_prospects, max_requests, i, successful_requests, results,
                   profile_data, generated_message, attempt, gen_calls, find_calls,
                   send_clicked, extract_ok>>
    /\ UNCHANGED <<backoffs, backoff, connect_clicked, modal_entered, field_text>>

\* lines 203-219: the loop head.  The loop ends when the slice is exhausted or
\* the success count reached the cap; else it sleeps (not before the first
\* request), reads prospect['linkedin_url'] (KeyError leaves the function) and
\* enters send_connection_request.
BulkLoop ==
    /\ pc = "loop"
    /\ UNCHANGED gotos
    /\ IF i >= bulk_limit(n_prospects, max_requests) \/ successful_requests >= max_requests
       THEN /\ pc' = "done"
            /\ UNCHANGED <<waits, prospect, result>>
       ELSE \E p \in Prospects, d \in InterRequestDelays :
              /\ waits' = IF i > 0 THEN <<d>> ELSE <<>>
              /\ IF p.has_url
                 THEN /\ prospect' = p
                      /\ result' = NewResult(i + 1)
                      /\ pc' = "goto"
                 ELSE /\ pc' = "raised"
                      /\ UNCHANGED <<prospect, result>>
    /\ UNCHANGED <<n_prospects, max_requests, i, successful_requests, results,
                   profile_data, generated_message, attempt, gen_calls, find_calls,
                   send_clicked, extract_ok>>
    /\ UNCHANGED <<backoffs, backoff, connect_clicked, modal_entered, field_text>>

\* line 88 and lines 221-227: the attempt returns its result, the loop records it
ReturnResult ==
    /\ pc = "ret"
    /\ gotos' = 0
    /\ results' = Append(results, result)
    /\ successful_requests' = IF result.success THEN successful_requests + 1
                                                ELSE successful_requests
    /\ i' = i + 1
    /\ pc' = "loop"
    /\ waits' = <<>>
    /\ prospect' = NoProspect
    /\ result' = NewResult(0)
    /\ generated_message' = NoMessage
    /\ attempt' = 0
    /\ gen_calls' = 0
    /\ find_calls' = 0
    /\ send_clicked' = FALSE
    /\ extract_ok' = FALSE
    /\ UNCHANGED <<n_prospects, max_requests, profile_data>>
    /\ backoffs' = 0
    /\ backoff' = 0
    /\ connect_clicked' = FALSE
    /\ modal_entered' = FALSE
    /\ field_text' = <<>>

\* handle_rate_limiting, lines 234-237
rate_limit_indicators ==
    { <<"r", "a", "t", "e", " ", "l", "i", "m", "i", "t">>,
      <<"t", "o", "o", " ", "m", "a", "n", "y", " ", "r", "e", "q", "u", "e", "s", "t", "s">>,
      <<"t", "e", "m", "p", "o", "r", "a", "r", "i", "l", "y", " ", "b", "l", "o", "c", "k", "e", "d">>,
      <<"u", "n", "u", "s", "u", "a", "l", " ", "a", "c", "t", "i", "v", "i", "t", "y">>,
      <<"v", "e", "r", "i", "f", "y", " ", "y", "o", "u", "r", " ", "i", "d", "e", "n", "t", "i", "t", "y">> }

\* random.randint(300, 900)
RateLimitWaitMin == 300
RateLimitWaitMax == 900

\* handle_rate_limiting, lines 232-249: the waits it can sleep for an error
\* message ({} when it returns False).  No step of the bulk run calls it.
handle_rate_limiting(error_message) ==
    IF \E indicator \in rate_limit_indicators : InLowerStr(indicator, error_message)
    THEN RateLimitWaitMin..RateLimitWaitMax
    ELSE {}

\* send_bulk_requests on entry, whatever the scraper holds
ConnStart ==
    /\ n_prospects \in 0..MaxProspects
    /\ max_requests \in 0..MaxRequests
    /\ i = 0
    /\ successful_requests = 0
    /\ results = <<>>
    /\ pc = "loop"
    /\ gotos = 0
    /\ waits = <<>>
    /\ prospect = NoProspect
    /\ result = NewResult(0)
    /\ generated_message = NoMessage
    /\ attempt = 0
    /\ gen_calls = 0
    /\ find_calls = 0
    /\ send_clicked = FALSE
    /\ extract_ok = FALSE
    /\ backoffs = 0
    /\ backoff = 0
    /\ connect_clicked = FALSE
    /\ modal_entered = FALSE
    /\ field_text = <<>>

\* the scraper as ConnectionManager.__init__ built it
ConnInit == ConnStart /\ profile_data = ProfileData

\* the contexts a ProfileData object can hold
Contexts == {extract_fields(ProfileData, page, 1) : page \in Prospects}

\* ------------------------------------------------------------------------
\* ElementDetector: the three finders and their strategies
\* ------------------------------------------------------------------------
detVars == <<det_text, det_pc, det_k, det_trace, det_returned, selectors_config>>

\* the strategies list of each finder, lines 82-87, 104-109, 126-130
Strategies(text) ==
    CASE text = "Connect" -> <<"_find_by_text", "_find_by_attributes", "_find_by_xpath",
                               "_find_by_visual_pattern">>
      [] text = "message" -> <<"_find_by_placeholder", "_find_by_attributes", "_find_by_xpath",
                               "_find_by_contenteditable">>
      [] text = "Send"    -> <<"_find_by_text", "_find_by_attributes", "_find_by_xpath">>

\* the selectors each strategy probes in order, lines 145-287
Selectors(strategy, text) ==
    CASE strategy = "_find_by_text" ->
            IF text = "Connect"
            THEN <<"button:has-text(\"Connect\")", "a:has-text(\"Connect\")",
                   "span:has-text(\"Connect\")", "div:has-text(\"Connect\")">>
            ELSE IF text = "Send"
            THEN <<"button:has-text(\"Send\")", "a:has-text(\"Send\")",
                   "span:has-text(\"Send\")", "div:has-text(\"Send\")">>
            ELSE <<"button:has-text(\"message\")", "a:has-text(\"message\")",
                   "span:has-text(\"message\")", "div:has-text(\"message\")">>
      [] strategy = "_find_by_attributes" ->
            IF text = "Connect"
            THEN <<"button[data-test-id=\"connect-button\"]", "button[aria-label*=\"Connect\"]",
                   "button[data-control-name*=\"connect\"]", "button[data-action=\"connect\"]">>
            ELSE IF text = "Send"
            THEN <<"button[data-test-id=\"send-button\"]", "button[aria-label*=\"Send\"]",
                   "button[data-action=\"send\"]">>
            ELSE <<"textarea[aria-label*=\"message\"]", "input[aria-label*=\"message\"]",
                   "div[role=\"textbox\"]">>
      [] strategy = "_find_by_xpath" ->
            IF text = "Connect"
            THEN <<"//button[contains(text(), \"Connect\")]",
                   "//button[contains(@data-control-name, \"connect\")]",
                   "//button[contains(@aria-label, \"Connect\")]">>
            ELSE IF text = "Send"
            THEN <<"//button[contains(text(), \"Send\")]",
                   "//button[contains(@data-test-id, \"send\")]",
                   "//button[contains(@aria-label, \"Send\")]">>
            ELSE <<"//textarea[contains(@placeholder, \"Add a note\")]",
                   "//input[@role=\"textbox\"]", "//div[@contenteditable=\"true\"]">>
      [] strategy = "_find_by_placeholder" ->
            <<"textarea[placeholder*=\"Add a note\"]", "textarea[placeholder*=\"message\"]",
              "input[placeholder*=\"message\"]", "input[placeholder*=\"note\"]">>
      [] strategy = "_find_by_contenteditable" ->
            <<"div[contenteditable=\"true\"]", "div[contenteditable=\"plaintext-only\"]",
              "[contenteditable=\"true\"]">>
      [] strategy = "_find_by_visual_pattern" ->
            IF text = "Connect" THEN <<"button">> ELSE <<>>

NoHandle == ""

\* what the probes of a strategy's selectors can give: is_visible answers
\* True or False, or the probe raises (caught by the bare except of the loop)
SelectorProbes(strategy, text) ==
    [1..Len(Selectors(strategy, text)) -> {"visible", "hidden", "raised"}]

\* the loop of a strategy (lines 154-160 and alike): the index of the first
\* selector whose probe answered visible, 0 when the loop falls through
first_visible(probes) ==
    IF \E j \in DOMAIN probes : probes[j] = "visible"
    THEN CHOOSE j \in DOMAIN probes :
            /\ probes[j] = "visible"
            /\ \A m \in 1..(j - 1) : probes[m] # "visible"
    ELSE 0

\* the probes made before the strategy returned, among them one that raised
probe_raised(probes) ==
    \E j \in DOMAIN probes :
        /\ probes[j] = "raised"
        /\ (first_visible(probes) = 0 \/ j < first_visible(probes))

\* What one pass of the finder's for loop can observe.  The strategy probes its
\* selectors in order (a probe that raises is skipped) and returns the first it
\* saw visible, or None; the finder then asks the handle is_visible() again,
\* which answers True or False, or raises.
StrategyOutcomes(strategy, text) ==
    UNION { { [strategy |-> strategy,
               handle |-> IF first_visible(probes) = 0 THEN NoHandle
                          ELSE Selectors(strategy, text)[first_visible(probes)],
               seen |-> v,
               probe_raised |-> probe_raised(probes)] :
              v \in (IF first_visible(probes) = 0 THEN {"none"}
                                                  ELSE {"visible", "hidden", "raised"}) } :
            probes \in SelectorProbes(strategy, text) }

\* a finder without the try block: what the second is_visible raises leaves
\* the finder
FinderStepRaises ==
    /\ det_pc = "run"
    /\ IF det_k <= Len(Strategies(det_text))
       THEN \E o \in StrategyOutcomes(Strategies(det_text)[det_k], det_text) :
              /\ det_trace' = Append(det_trace, o)
              /\ IF o.seen = "visible"
                 THEN /\ det_returned' = o.handle
                      /\ det_pc' = "returned"
                      /\ UNCHANGED det_k
                 ELSE IF o.seen = "raised"
                 THEN /\ det_pc' = "raised"
                      /\ UNCHANGED <<det_k, det_returned>>
                 ELSE /\ det_k' = det_k + 1
                      /\ det_pc' = "run"
                      /\ UNCHANGED det_returned
       ELSE /\ det_returned' = NoHandle
            /\ det_pc' = "returned"
            /\ UNCHANGED <<det_k, det_trace>>
    /\ UNCHANGED <<det_text, selectors_config>>

\* a finder that keeps the last visible match instead of returning the first
FinderStepKeepsLast ==
    /\ det_pc = "run"
    /\ IF det_k <= Len(Strategies(det_text))
       THEN \E o \in StrategyOutcomes(Strategies(det_text)[det_k], det_text) :
              /\ det_trace' = Append(det_trace, o)
              /\ det_k' = det_k + 1
              /\ det_returned' = IF o.seen = "visible" THEN o.handle ELSE det_returned
              /\ det_pc' = "run"
       ELSE /\ det_pc' = "returned"
            /\ UNCHANGED <<det_k, det_trace, det_returned>>
    /\ UNCHANGED <<det_text, selectors_config>>

\* one pass of `for strategy in strategies` (lines 89-97, 111-119, 132-140), or
\* the fall-through return None
FinderStep ==
    /\ det_pc = "run"
    /\ IF det_k <= Len(Strategies(det_text))
       THEN \E o \in StrategyOutcomes(Strategies(det_text)[det_k], det_text) :
              /\ det_trace' = Append(det_trace, o)
              /\ IF o.seen = "visible"
                 THEN /\ det_returned' = o.handle
                      /\ det_pc' = "returned"
                      /\ UNCHANGED det_k
                 ELSE /\ det_k' = det_k + 1
                      /\ det_pc' = "run"
                      /\ UNCHANGED det_returned
       ELSE /\ det_returned' = NoHandle
            /\ det_pc' = "returned"
            /\ UNCHANGED <<det_k, det_trace>>
    /\ UNCHANGED <<det_text, selectors_config>>

\* a call of find_connect_button, find_message_input or find_send_button
FinderCall ==
    /\ det_pc \in {"idle", "returned"}
    /\ det_text' \in {"Connect", "message", "Send"}
    /\ det_pc' = "run"
    /\ det_k' = 1
    /\ det_trace' = <<>>
    /\ det_returned' = NoHandle
    /\ UNCHANGED selectors_config

\* the element each finder looks for, as the configuration names it
Role(text) ==
    CASE text = "Connect" -> "connect_button"
      [] text = "message" -> "message_input"
      [] text = "Send" -> "send_button"

\* _get_default_selectors, lines 40-78: what is loaded when
\* config/selectors_config.json is missing
DefaultSelectorsConfig ==
    [primary_selectors |->
        [connect_button |-> <<"button:has-text(\"Connect\")",
                              "button[data-test-id=\"connect-button\"]",
                              "button[aria-label*=\"Connect\"]">>,
         message_input |-> <<"textarea[placeholder*=\"Add a note\"]",
                             "textarea[aria-label*=\"message\"]",
                             "input[role=\"textbox\"]">>,
         send_button |-> <<"button:has-text(\"Send\")",
                           "button[data-test-id=\"send-button\"]",
                           "button[aria-label*=\"Send\"]">>],
     xpath_selectors |->
        [connect_button |-> <<"//button[contains(text(), \"Connect\")]",
                              "//button[contains(@data-control-name, \"connect\")]">>,
         message_input |-> <<"//textarea[contains(@placeholder, \"Add a note\")]",
                             "//input[@role=\"textbox\"]">>,
         send_button |-> <<"//button[contains(text(), \"Send\")]">>]]

\* a selectors_config.json written for a changed markup: one selector per role
ChangedSelectorsConfig ==
    [primary_selectors |->
        [connect_button |-> <<"button.connect-cta">>,
         message_input |-> <<"textarea.note-field">>,
         send_button |-> <<"button.send-cta">>],
     xpath_selectors |->
        [connect_button |-> <<>>, message_input |-> <<>>, send_button |-> <<>>]]

\* the configurations json.load can return at line 34, or the defaults
SelectorConfigs == {DefaultSelectorsConfig, ChangedSelectorsConfig}

\* the selectors a configuration gives for a role
ConfiguredSelectors(config, role) ==
    {config.primary_selectors[role][k] : k \in DOMAIN config.primary_selectors[role]}
    \cup {config.xpath_selectors[role][k] : k \in DOMAIN config.xpath_selectors[role]}

\* the detector before __init__ loaded a configuration
DetStart ==
    /\ det_text = "Connect"
    /\ det_pc = "idle"
    /\ det_k = 1
    /\ det_trace = <<>>
    /\ det_returned = NoHandle

DetInit == DetStart /\ selectors_config = DefaultSelectorsConfig

\* ------------------------------------------------------------------------
\* ConnectionManager.check_connection_status
\* ------------------------------------------------------------------------
statVars == <<st_pc, st_loaded, st_k, st_trace, st_status>>

\* a status_selectors dict in which 'pending' comes before 'connected'
status_selectors_pending_first ==
    << [status |-> "pending", selector |-> "button:has-text(\"Pending\")"],
       [status |-> "pending", selector |-> "button[aria-label*=\"Pending\"]"],
       [status |-> "pending", selector |-> "span:has-text(\"Pending\")"],
       [status |-> "connected", selector |-> "button:has-text(\"Connected\")"],
       [status |-> "connected", selector |-> "button[aria-label*=\"Connected\"]"],
       [status |-> "connected", selector |-> "span:has-text(\"1st\")"],
       [status |-> "connect", selector |-> "button:has-text(\"Connect\")"],
       [status |-> "connect", selector |-> "button[aria-label*=\"Connect\"]"] >>

\* lines 166-182, in the order the nested loops of lines 184-185 visit them
status_selectors ==
    << [status |-> "connected", selector |-> "button:has-text(\"Connected\")"],
       [status |-> "connected", selector |-> "button[aria-label*=\"Connected\"]"],
       [status |-> "connected", selector |-> "span:has-text(\"1st\")"],
       [status |-> "pending", selector |-> "button:has-text(\"Pending\")"],
       [status |-> "pending", selector |-> "button[aria-label*=\"Pending\"]"],
       [status |-> "pending", selector |-> "span:has-text(\"Pending\")"],
       [status |-> "connect", selector |-> "button:has-text(\"Connect\")"],
       [status |-> "connect", selector |-> "button[aria-label*=\"Connect\"]"] >>

\* what a probe of lines 186-191 can give: is_visible answers True or False,
\* or the locator or is_visible raises (caught by the bare except)
ProbeOutcomes == {"visible", "hidden", "raised"}

\* lines 160-164 and 194-196: the call and its page.goto, which may raise
CheckConnectionStatus ==
    /\ st_pc \in {"idle", "returned"}
    /\ st_loaded' \in BOOLEAN
    /\ st_k' = 1
    /\ st_trace' = <<>>
    /\ IF st_loaded'
       THEN st_pc' = "probe" /\ st_status' = ""
       ELSE st_pc' = "returned" /\ st_status' = "error"

\* lines 184-193: one probe, or the fall-through return "unknown"
StatusProbe ==
    /\ st_pc = "probe"
    /\ IF st_k <= Len(status_selectors)
       THEN \E o \in ProbeOutcomes :
              /\ st_trace' = Append(st_trace, o)
              /\ IF o = "visible"
                 THEN /\ st_status' = status_selectors[st_k].status
                      /\ st_pc' = "returned"
                      /\ UNCHANGED st_k
                 ELSE /\ st_k' = st_k + 1
                      /\ UNCHANGED <<st_pc, st_status>>
       ELSE /\ st_status' = "unknown"
            /\ st_pc' = "returned"
            /\ UNCHANGED <<st_k, st_trace>>
    /\ UNCHANGED st_loaded

StatInit ==
    /\ st_pc = "idle"
    /\ st_loaded = FALSE
    /\ st_k = 1
    /\ st_trace = <<>>
    /\ st_status = ""

\* ------------------------------------------------------------------------
\* SearchStrategies: what a result page lists and what extraction keeps
\* ------------------------------------------------------------------------
discVars == <<store, surface, max_prospects, max_searches, runs, dpc, d_strategy, q, pending,
              search_count, existing_urls, discovered_prospects, duplicates_found,
              validation_errors, first_extracted, flaky, pre_final, cooldown, nav_tries, off_target_dropped, visit_log, handed>>

\* bounds
MaxRuns == 2
MaxProspectCap == 2
MaxSearchCap == 3

Item(href, name, job_title, location, company) ==
    [href |-> href, name |-> name, job_title |-> job_title, location |-> location,
     company |-> company]

\* result items of the search pages: two spellings of one profile, a second
\* profile, a relative link, a private profile, an off-target job title, a
\* link whose scheme is written in capitals
ItemA1 == Item("https://www.linkedin.com/in/a", "Al", "Recruiter", "NY", "Acme")
ItemA2 == Item("https://www.linkedin.com/in/a", "Ali", " Recruiter ", "NY", "")
ItemB == Item("https://www.linkedin.com/in/b", "Bo", "Recruiter", "NY", "Acme")
ItemRelative == Item("/in/c", "Cy", "Recruiter", "NY", "")
ItemPrivate == Item("https://www.linkedin.com/in/d", "Di", "Recruiter", "NY", "")
ItemOffTarget == Item("https://www.linkedin.com/in/e", "Ed", "Engineer", "NY", "Acme")
ItemUpperScheme == Item("HTTPS://www.linkedin.com/in/f", "Fay", "Recruiter", "NY", "Acme")

\* profiles whose page is public and shows a profile-content marker (the
\* browser reads a scheme in either case; a relative link cannot be visited)
PublicUrls == {"https://www.linkedin.com/in/a", "https://www.linkedin.com/in/b",
               "https://www.linkedin.com/in/e", "HTTPS://www.linkedin.com/in/f"}

\* the result pages a query can have
ResultPages ==
    { <<>>,
      <<ItemA1, ItemB>>,
      <<ItemA2, ItemPrivate>>,
      <<ItemRelative, ItemUpperScheme, ItemOffTarget, ItemB>> }

relevant_keywords ==
    { <<"h", "i", "r", "i", "n", "g">>, <<"t", "a", "l", "e", "n", "t">>,
      <<"r", "e", "c", "r", "u", "i", "t">>, <<"h", "r">>,
      <<"p", "e", "o", "p", "l", "e">>,
      <<"h", "u", "m", "a", "n", " ", "r", "e", "s", "o", "u", "r", "c", "e", "s">> }

\* SearchStrategies._validate_profile_data, lines 222-239
validate_profile_data_at_extraction(name, job_title, location) ==
    /\ ~(name = "" \/ LenStr(StripStr(name)) < 2)
    /\ ~(job_title = "" \/ LenStr(StripStr(job_title)) < 3)
    /\ ~(location = "" \/ LenStr(StripStr(location)) < 2)
    /\ \E kw \in relevant_keywords : InLowerStr(kw, job_title)

\* _extract_profile_data_from_item, lines 178-220: <<>> stands for None
extract_profile_data_from_item(item) ==
    IF item.href = "" \/ ~InStr(<<"/", "i", "n", "/">>, item.href)
    THEN <<>>
    ELSE IF validate_profile_data_at_extraction(item.name, item.job_title, item.location)
         THEN << [linkedin_url |-> item.href,
                  name |-> StripStr(item.name),
                  job_title |-> StripStr(item.job_title),
                  location |-> StripStr(item.location),
                  company |-> StripStr(item.company),
                  search_source |-> "linkedin_search"] >>
         ELSE <<>>

\* _extract_profiles_from_search_results, lines 153-176
RECURSIVE extract_profiles_from_search_results(_)
extract_profiles_from_search_results(items) ==
    IF items = <<>> THEN <<>>
    ELSE extract_profile_data_from_item(Head(items))
            \o extract_profiles_from_search_results(Tail(items))

\* max_retries of _navigate_with_retry, line 395
NavigateMaxRetries == 3

\* how many times a search called page.goto: _navigate_with_retry (lines
\* 395-408) returns after the first goto that does not raise and raises after
\* the third that does; a search that failed may also have failed before
\* navigating (line 36) or after it (lines 43-48)
navigate_with_retry_tries(ok) ==
    IF ok THEN 1..NavigateMaxRetries ELSE 0..NavigateMaxRetries

\* an item that _validate_profile_data refuses for its job title alone
\* (lines 235-239): link, name, job title length and location pass
off_target(item) ==
    /\ extract_profile_data_from_item(item) = <<>>
    /\ ~(item.href = "" \/ ~InStr(<<"/", "i", "n", "/">>, item.href))
    /\ ~(item.name = "" \/ LenStr(StripStr(item.name)) < 2)
    /\ ~(item.job_title = "" \/ LenStr(StripStr(item.job_title)) < 3)
    /\ ~(item.location = "" \/ LenStr(StripStr(item.location)) < 2)

\* the off-target items of each result page
OffTargetOnPage ==
    [page \in ResultPages |-> Cardinality({k \in DOMAIN page : off_target(page[k])})]

\* how many items of a result page a search drops as off-target: none when
\* the navigation failed and nothing was extracted
off_target_items(page, ok) ==
    IF ok THEN OffTargetOnPage[page] ELSE 0

\* the engine's count of off-target entries: __init__ (prospect_discoverer.py
\* lines 34-36) creates duplicates_found and validation_errors only, and
\* SearchStrategies drops the item without a count (lines 207-220)
off_target_count == 0

\* what the extraction yields on each result page
ExtractedOnPage ==
    [page \in ResultPages |-> extract_profiles_from_search_results(page)]

\* search_by_job_title_and_location / search_by_company_and_job_title: [] when
\* navigation, page validation or anything else failed, else the extracted list
search_profiles(page, ok) ==
    IF ok THEN ExtractedOnPage[page] ELSE <<>>

\* ------------------------------------------------------------------------
\* ProspectDiscoverer
\* ------------------------------------------------------------------------
\* the search configuration
locations == <<"Germany", "Belgium">>
job_titles == <<"Recruiter">>
companies == <<"Acme">>

\* the (location, job title) pairs in the order of the nested loops, lines 85-89
RECURSIVE Pairs(_, _, _, _)
Pairs(outer, inner, a, b) ==
    IF a > Len(outer) THEN <<>>
    ELSE IF b > Len(inner) THEN Pairs(outer, inner, a + 1, 1)
    ELSE << <<outer[a], inner[b]>> >> \o Pairs(outer, inner, a, b + 1)

Queries1 == Pairs(locations, job_titles, 1, 1)

\* companies[:5] x job_titles[:3], lines 118-122
Queries2 ==
    Pairs(SubSeq(companies, 1, Min(5, Len(companies))),
          SubSeq(job_titles, 1, Min(3, Len(job_titles))), 1, 1)

NumQueries == Len(Queries1) + Len(Queries2)

\* the page of the query the loops are at
CurrentPage == surface[IF d_strategy = 1 THEN q ELSE Len(Queries1) + q]

urls(prospects) == {prospects[k].linkedin_url : k \in DOMAIN prospects}
urls_of_set(entries) == {e.linkedin_url : e \in entries}

\* a validation that does not look at the shape of the URL
validate_profile_any_url(profile) ==
    /\ \A field \in {"linkedin_url", "name", "job_title", "location"} :
          ~(profile[field] = "" \/ LenStr(StripStr(profile[field])) < 2)
    /\ \E kw \in relevant_keywords : InLowerStr(kw, profile.job_title)

\* _validate_profile, lines 188-206
validate_profile(profile) ==
    /\ \A field \in {"linkedin_url", "name", "job_title", "location"} :
          ~(profile[field] = "" \/ LenStr(StripStr(profile[field])) < 2)
    /\ ~( ~InStr(<<"/", "i", "n", "/">>, profile.linkedin_url)
          \/ ~StartsWith(profile.linkedin_url, <<"h", "t", "t", "p">>) )
    /\ \E kw \in relevant_keywords : InLowerStr(kw, profile.job_title)

\* the profiles the searches can hand to _process_profile, and the answer of
\* _validate_profile for each of them
Profiles ==
    UNION { {ExtractedOnPage[page][k] : k \in DOMAIN ExtractedOnPage[page]} : page \in ResultPages }
ValidProfile == [profile \in Profiles |-> validate_profile(profile)]

\* _process_profile without the test against the persisted URLs
process_profile_ignores_existing(profile, existing, visit_ok) ==
    IF ~ValidProfile[profile] THEN "invalid"
    ELSE IF ~visit_ok THEN "visit_failed"
    ELSE "accepted"

\* _process_profile, lines 160-186: which return it takes; visit_ok is what
\* _validate_profile_by_visit answers when it is reached
process_profile(profile, existing, visit_ok) ==
    IF profile.linkedin_url \in existing THEN "duplicate"
    ELSE IF ~ValidProfile[profile] THEN "invalid"
    ELSE IF ~visit_ok THEN "visit_failed"
    ELSE "accepted"


\* _process_profile, lines 163-176: page.goto of _validate_profile_by_visit
\* (line 212) is reached when neither of the two earlier returns is taken
visit_performed(verdict) ==
    verdict \in {"visit_failed", "accepted"}

\* no profile page navigated to yet in this run
NoVisits == [visited |-> {}, revisited |-> {}, with_marker |-> {}]

\* the log after _process_profile(profile) took the return named by verdict:
\* a navigation to a URL already in the log is a revisit; with_marker collects
\* the URLs whose visit saw a profile indicator (lines 221-236)
log_visit(log, profile, verdict) ==
    IF ~visit_performed(verdict) THEN log
    ELSE [visited |-> log.visited \cup {profile.linkedin_url},
          revisited |-> IF profile.linkedin_url \in log.visited
                        THEN log.revisited \cup {profile.linkedin_url}
                        ELSE log.revisited,
          with_marker |-> IF verdict = "accepted" THEN log.with_marker \cup {profile.linkedin_url}
                          ELSE log.with_marker]

\* a final pass that validates but does not deduplicate
final_pass_without_dedup(prospects) ==
    SelectSeq(prospects, LAMBDA profile : ValidProfile[profile])

\* a final pass in which the last occurrence of a URL wins
RECURSIVE final_pass_keeps_last(_)
final_pass_keeps_last(prospects) ==
    IF prospects = <<>> THEN <<>>
    ELSE IF Head(prospects).linkedin_url \in urls(Tail(prospects))
         THEN final_pass_keeps_last(Tail(prospects))
         ELSE (IF ValidProfile[Head(prospects)] THEN <<Head(prospects)>> ELSE <<>>)
                  \o final_pass_keeps_last(Tail(prospects))

\* the loop of _final_validation_and_deduplication, lines 256-265
RECURSIVE FinalPassLoop(_, _)
FinalPassLoop(prospects, seen_urls) ==
    IF prospects = <<>> THEN <<>>
    ELSE IF Head(prospects).linkedin_url \in seen_urls
         THEN FinalPassLoop(Tail(prospects), seen_urls)
         ELSE (IF ValidProfile[Head(prospects)] THEN <<Head(prospects)>> ELSE <<>>)
                  \o FinalPassLoop(Tail(prospects), seen_urls \cup {Head(prospects).linkedin_url})

\* _final_validation_and_deduplication, lines 251-267
final_validation_and_deduplication(prospects) == FinalPassLoop(prospects, {})

\* the loop of save_prospects, lines 280-284
RECURSIVE SaveLoop(_, _)
SaveLoop(all_prospects, seen_urls) ==
    IF all_prospects = <<>> THEN <<>>
    ELSE IF Head(all_prospects).linkedin_url # ""
            /\ Head(all_prospects).linkedin_url \notin seen_urls
         THEN <<Head(all_prospects)>>
                  \o SaveLoop(Tail(all_prospects),
                              seen_urls \cup {Head(all_prospects).linkedin_url})
         ELSE SaveLoop(Tail(all_prospects), seen_urls)

\* ProspectDiscoverer.save_prospects, lines 269-294: what it writes to the store
save_prospects(existing_prospects, prospects) ==
    SaveLoop(existing_prospects \o prospects, {})

\* DiscoveryWorkflow._run_discovery_phase, lines 111-113: what the store holds after
run_discovery_phase_save(existing_prospects, prospects) ==
    IF prospects # <<>> THEN prospects ELSE existing_prospects

\* a loop-head test that looks at the prospect cap only
cap_reached_ignores_search_cap ==
    Len(discovered_prospects) >= max_prospects

cap_reached ==
    search_count >= max_searches \/ Len(discovered_prospects) >= max_prospects

\* A discovery entry point builds a new ProspectDiscoverer (lines 29-36) and calls
\* discover_prospects, which loads the store (lines 69-71, 82)
StartRun ==
    /\ dpc = "idle"
    /\ runs < MaxRuns
    /\ runs' = runs + 1
    /\ discovered_prospects' = <<>>
    /\ duplicates_found' = 0
    /\ validation_errors' = 0
    /\ existing_urls' = urls(store)
    /\ search_count' = 0
    /\ first_extracted' = {}
    /\ d_strategy' = 1
    /\ q' = 1
    /\ pending' = <<>>
    /\ dpc' = "search"
    /\ pre_final' = <<>>
    /\ cooldown' = 0
    /\ nav_tries' = 0
    /\ off_target_dropped' = 0
    /\ visit_log' = NoVisits
    /\ handed' = 0
    /\ UNCHANGED <<store, surface, max_prospects, max_searches, flaky>>

\* discover_prospects called again on the engine of the last run (lines 65-83):
\* the store is loaded and search_count starts at 0; self.discovered_prospects,
\* self.duplicates_found and self.validation_errors are assigned in __init__
\* (lines 34-36) only
DiscoverAgain ==
    /\ dpc = "idle"
    /\ runs > 0
    /\ runs < MaxRuns
    /\ runs' = runs + 1
    /\ existing_urls' = urls(store)
    /\ search_count' = 0
    /\ first_extracted' = {}
    /\ d_strategy' = 1
    /\ q' = 1
    /\ pending' = <<>>
    /\ dpc' = "search"
    /\ pre_final' = <<>>
    /\ cooldown' = 0
    /\ nav_tries' = 0
    /\ off_target_dropped' = 0
    /\ visit_log' = NoVisits
    /\ handed' = 0
    /\ UNCHANGED <<store, surface, max_prospects, max_searches, flaky,
                   discovered_prospects, duplicates_found, validation_errors>>

\* lines 85-98: the loop heads of strategy 1 and the search of one pair
Strategy1 ==
    /\ dpc = "search"
    /\ d_strategy = 1
    /\ IF q > Len(Queries1) \/ cap_reached
       THEN /\ d_strategy' = 2
            /\ q' = 1
            /\ UNCHANGED <<pending, dpc, flaky, cooldown, nav_tries, off_target_dropped, visit_log, handed>>
       ELSE \E ok \in BOOLEAN :
              /\ pending' = search_profiles(CurrentPage, ok)
              /\ nav_tries' \in navigate_with_retry_tries(ok)
              /\ off_target_dropped' = off_target_dropped + off_target_items(CurrentPage, ok)
              /\ UNCHANGED <<visit_log, handed>>
              /\ flaky' = (flaky \/ ~ok)
              /\ dpc' = "process"
              /\ cooldown' = 0
              /\ UNCHANGED <<d_strategy, q>>
    /\ UNCHANGED <<store, surface, max_prospects, max_searches, runs, search_count,
                   existing_urls, discovered_prospects, duplicates_found,
                   validation_errors, first_extracted, pre_final>>

\* lines 117-131: the guard and loop heads of strategy 2 and the search of one pair
Strategy2 ==
    /\ dpc = "search"
    /\ d_strategy = 2
    /\ IF Len(discovered_prospects) >= max_prospects \/ q > Len(Queries2) \/ cap_reached
       THEN /\ dpc' = "final"
            /\ UNCHANGED <<pending, flaky, cooldown, nav_tries, off_target_dropped, visit_log, handed>>
       ELSE \E ok \in BOOLEAN :
              /\ pending' = search_profiles(CurrentPage, ok)
              /\ nav_tries' \in navigate_with_retry_tries(ok)
              /\ off_target_dropped' = off_target_dropped + off_target_items(CurrentPage, ok)
              /\ UNCHANGED <<visit_log, handed>>
              /\ flaky' = (flaky \/ ~ok)
              /\ dpc' = "process"
              /\ cooldown' = 0
    /\ UNCHANGED <<store, surface, max_prospects, max_searches, runs, d_strategy, q,
                   search_count, existing_urls, discovered_prospects, duplicates_found,
                   validation_errors, first_extracted, pre_final>>

\* lines 101-106 and 134-139: one pass of `for profile in profiles`
ProcessProfile ==
    /\ dpc = "process"
    /\ pending # <<>>
    /\ Len(discovered_prospects) < max_prospects
    /\ LET profile == Head(pending) IN
         \E visit_ok \in (IF profile.linkedin_url \in PublicUrls THEN BOOLEAN ELSE {FALSE}) :
           LET verdict == process_profile(profile, existing_urls, visit_ok) IN
             /\ duplicates_found' = duplicates_found + (IF verdict = "duplicate" THEN 1 ELSE 0)
             /\ validation_errors' = validation_errors
                                       + (IF verdict \in {"invalid", "visit_failed"} THEN 1 ELSE 0)
             /\ discovered_prospects' = IF verdict = "accepted"
                                        THEN Append(discovered_prospects, profile)
                                        ELSE discovered_prospects
             /\ flaky' = (flaky \/ (verdict = "visit_failed" /\ profile.linkedin_url \in PublicUrls))
             /\ visit_log' = log_visit(visit_log, profile, verdict)
             /\ handed' = handed + 1
             /\ first_extracted' = IF profile.linkedin_url \in urls_of_set(first_extracted)
                                   THEN first_extracted
                                   ELSE first_extracted \cup {profile}
    /\ pending' = Tail(pending)
    /\ nav_tries' = 0
    /\ UNCHANGED <<store, surface, max_prospects, max_searches, runs, dpc, d_strategy, q,
                   search_count, existing_urls, pre_final, cooldown, off_target_dropped>>

\* random.uniform(180, 600) between searches
SearchCooldownMin == 180
SearchCooldownMax == 600
SearchCooldowns == {SearchCooldownMin, SearchCooldownMax}

\* a search that is counted and never followed by a sleep
EndSearchWithoutCooldown ==
    /\ dpc = "process"
    /\ pending = <<>> \/ Len(discovered_prospects) >= max_prospects
    /\ pending' = <<>>
    /\ nav_tries' = 0
    /\ search_count' = search_count + 1
    /\ cooldown' = 0
    /\ q' = q + 1
    /\ dpc' = "search"
    /\ UNCHANGED <<store, surface, max_prospects, max_searches, runs, d_strategy,
                   existing_urls, discovered_prospects, duplicates_found,
                   validation_errors, first_extracted, flaky, pre_final, off_target_dropped, visit_log, handed>>

\* lines 102-103, 108-114 and 135-136, 141-147: the profile loop ends (exhausted,
\* or the break on the prospect cap), the search is counted, and the cooldown
\* is slept when the search cap is not yet reached
EndSearch ==
    /\ dpc = "process"
    /\ pending = <<>> \/ Len(discovered_prospects) >= max_prospects
    /\ pending' = <<>>
    /\ nav_tries' = 0
    /\ search_count' = search_count + 1
    /\ IF search_count' < max_searches
       THEN cooldown' \in SearchCooldowns
       ELSE cooldown' = 0
    /\ q' = q + 1
    /\ dpc' = "search"
    /\ UNCHANGED <<store, surface, max_prospects, max_searches, runs, d_strategy,
                   existing_urls, discovered_prospects, duplicates_found,
                   validation_errors, first_extracted, flaky, pre_final, off_target_dropped, visit_log, handed>>

\* lines 149-158
FinalPass ==
    /\ dpc = "final"
    /\ discovered_prospects' = final_validation_and_deduplication(discovered_prospects)
    /\ pre_final' = discovered_prospects
    /\ dpc' = "returned"
    /\ UNCHANGED <<store, surface, max_prospects, max_searches, runs, d_strategy, q, pending,
                   search_count, existing_urls, duplicates_found, validation_errors,
                   first_extracted, flaky, cooldown, nav_tries, off_target_dropped, visit_log, handed>>

\* DiscoveryWorkflow._run_discovery_phase, lines 109-113
RunDiscoveryPhaseSave ==
    /\ dpc = "returned"
    /\ store' = run_discovery_phase_save(store, discovered_prospects)
    /\ dpc' = "idle"
    /\ UNCHANGED <<surface, max_prospects, max_searches, runs, d_strategy, q, pending,
                   search_count, existing_urls, discovered_prospects, duplicates_found,
                   validation_errors, first_extracted, flaky, pre_final, cooldown, nav_tries, off_target_dropped, visit_log, handed>>

\* ProspectDiscoverer.run_discovery_workflow, lines 320-323
SaveProspects ==
    /\ dpc = "returned"
    /\ store' = save_prospects(store, discovered_prospects)
    /\ dpc' = "idle"
    /\ UNCHANGED <<surface, max_prospects, max_searches, runs, d_strategy, q, pending,
                   search_count, existing_urls, discovered_prospects, duplicates_found,
                   validation_errors, first_extracted, flaky, pre_final, cooldown, nav_tries, off_target_dropped, visit_log, handed>>

DiscInit ==
    /\ store = <<>>
    /\ surface \in [1..NumQueries -> ResultPages]
    /\ max_prospects \in 1..MaxProspectCap
    /\ max_searches \in 1..MaxSearchCap
    /\ runs = 0
    /\ dpc = "idle"
    /\ d_strategy = 1
    /\ q = 1
    /\ pending = <<>>
    /\ search_count = 0
    /\ existing_urls = {}
    /\ discovered_prospects = <<>>
    /\ duplicates_found = 0
    /\ validation_errors = 0
    /\ first_extracted = {}
    /\ flaky = FALSE
    /\ pre_final = <<>>
    /\ cooldown = 0
    /\ nav_tries = 0
    /\ off_target_dropped = 0
    /\ visit_log = NoVisits
    /\ handed = 0

\* the discovery engine idle, for the runs that do not use it
DiscIdle ==
    /\ DiscInit
    /\ surface = [k \in 1..NumQueries |-> <<>>]
    /\ max_prospects = 1
    /\ max_searches = 1

\* the discovery engine after its last run, for a process that only sends
\* connection requests
DiscOver ==
    /\ store = <<>>
    /\ surface = [k \in 1..NumQueries |-> <<>>]
    /\ max_prospects = 1
    /\ max_searches = 1
    /\ runs = MaxRuns
    /\ dpc = "idle"
    /\ d_strategy = 1
    /\ q = 1
    /\ pending = <<>>
    /\ search_count = 0
    /\ existing_urls = {}
    /\ discovered_prospects = <<>>
    /\ duplicates_found = 0
    /\ validation_errors = 0
    /\ first_extracted = {}
    /\ flaky = FALSE
    /\ pre_final = <<>>
    /\ cooldown = 0
    /\ nav_tries = 0
    /\ off_target_dropped = 0
    /\ visit_log = NoVisits
    /\ handed = 0

\* ------------------------------------------------------------------------
\* SearchStrategies: one search, with the validation of the result page
\* ------------------------------------------------------------------------
searchVars == <<se_page, se_pc, se_kind, se_probes, se_valid, se_extracted, se_profiles>>

\* search_indicators, lines 414-419, and error_indicators, lines 430-436
NumSearchIndicators == 4
NumErrorIndicators == 5

\* what page.title() gives: a title with or without "LinkedIn", or an exception
TitleOutcomes == {"has_linkedin", "no_linkedin", "raised"}

\* the error markers of a page: none showing, or one selector not hidden
ErrorMarkers ==
    { [k \in 1..NumErrorIndicators |-> "hidden"] }
    \cup { [k \in 1..NumErrorIndicators |-> IF k = at THEN o ELSE "hidden"] :
              at \in 1..NumErrorIndicators, o \in {"visible", "raised"} }
    \cup { [k \in 1..NumErrorIndicators |-> IF k = 1 THEN "raised" ELSE "visible"] }

\* the pages a search URL can show
SearchPages ==
    [positive : [1..NumSearchIndicators -> ProbeOutcomes],
     negative : ErrorMarkers,
     title : TitleOutcomes,
     items : ResultPages]

any_visible(markers) == \E k \in DOMAIN markers : markers[k] = "visible"

\* the selectors a `for ... in indicators` loop probes: it stops at the first
\* one is_visible answers True for, and goes on after one that raised
probed(markers) ==
    IF any_visible(markers)
    THEN 1..(CHOOSE k \in DOMAIN markers :
                /\ markers[k] = "visible"
                /\ \A j \in 1..(k - 1) : markers[j] # "visible")
    ELSE DOMAIN markers

probe_log(kind, markers) ==
    [k \in probed(markers) |-> [kind |-> kind, selector |-> k]]

\* the probes of _validate_search_results in the order made, lines 421-446
validation_probes(page) ==
    probe_log("positive", page.positive)
        \o (IF any_visible(page.positive) THEN <<>>
            ELSE probe_log("negative", page.negative))

\* a validation that takes a page without any marker for a loaded one
validate_search_results_assumes_valid(page) ==
    IF any_visible(page.positive) THEN TRUE
    ELSE IF any_visible(page.negative) THEN FALSE
    ELSE page.title = "has_linkedin"

\* _validate_search_results, lines 410-457
validate_search_results(page) ==
    IF any_visible(page.positive) THEN TRUE
    ELSE IF any_visible(page.negative) THEN FALSE
    ELSE IF page.title = "raised" THEN FALSE
    ELSE IF page.title = "no_linkedin" THEN FALSE
    ELSE FALSE

\* what stops a search before the validation: the strategy is disabled in
\* the configuration (lines 29-30), or _simulate_human_behavior or
\* _navigate_with_retry raised (lines 36-40)
SearchEntries == {"disabled", "navigation_raised", "navigated"}

\* the body shared by search_by_job_title_and_location (lines 27-55) and
\* search_by_company_and_job_title (lines 87-115)
search(kind) ==
    /\ se_pc = "idle"
    /\ se_kind' = kind
    /\ se_pc' = "returned"
    /\ \E entry \in SearchEntries, extraction_raises \in BOOLEAN :
          IF entry # "navigated"
          THEN /\ se_probes' = <<>>
               /\ se_valid' = "not_run"
               /\ se_extracted' = FALSE
               /\ se_profiles' = <<>>
          ELSE /\ se_probes' = validation_probes(se_page)
               /\ IF validate_search_results(se_page)
                  THEN /\ se_valid' = "valid"
                       /\ se_extracted' = TRUE
                       /\ se_profiles' = IF extraction_raises THEN <<>>
                                         ELSE ExtractedOnPage[se_page.items]
                  ELSE /\ se_valid' = "invalid"
                       /\ se_extracted' = FALSE
                       /\ se_profiles' = <<>>
    /\ UNCHANGED se_page

SearchByJobTitleAndLocation == search("job_title_and_location")

SearchByCompanyAndJobTitle == search("company_and_job_title")

\* the caller takes the list, and the next search URL lists some result items
NextSearch ==
    /\ se_pc = "returned"
    /\ se_pc' = "idle"
    /\ \E items \in ResultPages : se_page' = [se_page EXCEPT !.items = items]
    /\ se_probes' = <<>>
    /\ se_valid' = "not_run"
    /\ se_extracted' = FALSE
    /\ se_profiles' = <<>>
    /\ UNCHANGED se_kind

SearchInit ==
    /\ se_page \in SearchPages
    /\ se_pc = "idle"
    /\ se_kind = "none"
    /\ se_probes = <<>>
    /\ se_valid = "not_run"
    /\ se_extracted = FALSE
    /\ se_profiles = <<>>

\* no search under way, for the runs that do not use one
SearchIdle ==
    /\ SearchInit
    /\ se_page = [positive |-> [k \in 1..NumSearchIndicators |-> "hidden"],
                  negative |-> [k \in 1..NumErrorIndicators |-> "hidden"],
                  title |-> "has_linkedin",
                  items |-> <<>>]

\* ------------------------------------------------------------------------
\* LinkedInAutomationWorkflow
\* ------------------------------------------------------------------------
workflowVars == <<wf_setup, wf_pc, wf_calls, wf_last, wf_session, wf_navigations,
                  wf_attempts, wf_results, wf_result, sent_log, failed_log>>

MaxWorkflowProspects == 2
MaxWorkflowCalls == 2

\* max_requests of run_workflow, line 52
DefaultMaxRequests == 9

WorkflowSetups ==
    [cookies : BOOLEAN, api_key : BOOLEAN, prospects : 0..MaxWorkflowProspects]

\* the success flag an attempt of this ConnectionManager can return
AttemptOutcomes ==
    IF detector_simulate_human_behavior_raises THEN {FALSE} ELSE BOOLEAN

\* how _initialize_authenticated_session ends when the cookies are there: the
\* browser does not start, the feed loads, the fallback page loads, or both
\* page.goto calls raise
SessionOutcomes == {"launch_raised", "feed", "homepage", "navigation_raised"}

\* _initialize_authenticated_session, lines 123-148: whether it returned, and
\* the page.goto calls it made; load_cookies_from_json raises before new_page
initialize_authenticated_session(setup, o) ==
    IF o = "launch_raised" THEN [ok |-> FALSE, navigations |-> 0]
    ELSE IF ~setup.cookies THEN [ok |-> FALSE, navigations |-> 0]
    ELSE IF o = "feed" THEN [ok |-> TRUE, navigations |-> 1]
    ELSE IF o = "homepage" THEN [ok |-> TRUE, navigations |-> 2]
    ELSE [ok |-> FALSE, navigations |-> 2]

Successes(rs) == SelectSeq(rs, LAMBDA r : r.success)
Failures(rs) == SelectSeq(rs, LAMBDA r : ~r.success)

\* run_workflow, lines 52-121; raises_at is the prospect at which
\* send_bulk_requests raises (0: it returns)
RunWorkflow ==
    /\ wf_pc = "idle"
    /\ wf_calls < MaxWorkflowCalls
    /\ \E o \in SessionOutcomes, on_linkedin \in BOOLEAN :
         LET session == initialize_authenticated_session(wf_setup, o)
             n == bulk_limit(wf_setup.prospects, DefaultMaxRequests)
         IN IF ~session.ok \/ ~on_linkedin \/ ~wf_setup.api_key
            THEN /\ wf_navigations' = session.navigations
                 /\ wf_attempts' = 0
                 /\ wf_results' = <<>>
                 /\ wf_result' = [success |-> FALSE, errors |-> 1]
                 /\ wf_session' = wf_session
                 /\ UNCHANGED <<sent_log, failed_log>>
            ELSE \E raises_at \in 0..n, outcome \in [1..n -> AttemptOutcomes] :
                   LET bulk_results == [k \in 1..n |-> [success |-> outcome[k]]]
                   IN /\ wf_session' = TRUE
                      /\ IF raises_at > 0
                         THEN /\ wf_navigations' = session.navigations + (raises_at - 1)
                              /\ wf_attempts' = raises_at - 1
                              /\ wf_results' = SubSeq(bulk_results, 1, raises_at - 1)
                              /\ wf_result' = [success |-> FALSE, errors |-> 1]
                              /\ UNCHANGED <<sent_log, failed_log>>
                         ELSE /\ wf_navigations' = session.navigations + n
                              /\ wf_attempts' = n
                              /\ wf_results' = bulk_results
                              /\ wf_result' = [success |-> Len(Successes(bulk_results)) > 0,
                                               errors |-> 0]
                              /\ sent_log' = sent_log \o Successes(bulk_results)
                              /\ failed_log' = failed_log \o Failures(bulk_results)
    /\ wf_calls' = wf_calls + 1
    /\ wf_last' = "run_workflow"
    /\ wf_pc' = "returned"
    /\ UNCHANGED wf_setup

\* run_single_request, lines 151-179
RunSingleRequest ==
    /\ wf_pc = "idle"
    /\ wf_calls < MaxWorkflowCalls
    /\ \E o \in SessionOutcomes, has_url \in BOOLEAN, success \in AttemptOutcomes :
         LET session == IF wf_session THEN [ok |-> TRUE, navigations |-> 0]
                        ELSE initialize_authenticated_session(wf_setup, o)
             ready == wf_session \/ (session.ok /\ wf_setup.api_key)
         IN IF ~ready \/ ~has_url
            THEN /\ wf_navigations' = session.navigations
                 /\ wf_attempts' = 0
                 /\ wf_results' = <<>>
                 /\ wf_result' = [success |-> FALSE, errors |-> 1]
                 /\ wf_session' = ready
                 /\ UNCHANGED <<sent_log, failed_log>>
            ELSE /\ wf_navigations' = session.navigations + 1
                 /\ wf_attempts' = 1
                 /\ wf_results' = << [success |-> success] >>
                 /\ wf_result' = [success |-> success, errors |-> 0]
                 /\ wf_session' = TRUE
                 /\ sent_log' = Append(sent_log, [success |-> success])
                 /\ UNCHANGED failed_log
    /\ wf_calls' = wf_calls + 1
    /\ wf_last' = "run_single_request"
    /\ wf_pc' = "returned"
    /\ UNCHANGED wf_setup

\* the caller has the result; the next call may find another setup
WorkflowReturned ==
    /\ wf_pc = "returned"
    /\ wf_pc' = "idle"
    /\ wf_setup' \in WorkflowSetups
    /\ UNCHANGED <<wf_calls, wf_last, wf_session, wf_navigations, wf_attempts,
                   wf_results, wf_result, sent_log, failed_log>>

WorkflowInit ==
    /\ wf_setup \in WorkflowSetups
    /\ wf_pc = "idle"
    /\ wf_calls = 0
    /\ wf_last = "none"
    /\ wf_session = FALSE
    /\ wf_navigations = 0
    /\ wf_attempts = 0
    /\ wf_results = <<>>
    /\ wf_result = [success |-> FALSE, errors |-> 0]
    /\ sent_log = <<>>
    /\ failed_log = <<>>

\* no workflow object, for the runs that do not use one
WorkflowIdle ==
    /\ WorkflowInit
    /\ wf_setup = [cookies |-> TRUE, api_key |-> TRUE, prospects |-> 0]

\* ------------------------------------------------------------------------
\* DiscoveryWorkflow.run_complete_workflow as the main task of asyncio.run
\* ------------------------------------------------------------------------
loopVars == <<dw_pc, dw_stage, dw_waiting, dw_resumed, dw_browser, dw_context, dw_failed,
              cleanup_suspended, loop_running, loop_ready, loop_batch, loop_stopping,
              save_task, workflow_summaries>>

\* the operations awaited in the try block, lines 58-71 and 88-99, in order
Stages ==
    << "initialize", "_launch_browser", "create_context", "new_page",
       "load_cookies_from_json", "add_cookies", "_run_discovery_phase",
       "_run_connection_phase", "_generate_final_report" >>

\* what an awaited operation of another component can do to the task that
\* awaits it: suspend it on a future, return, or raise
AwaitOutcomes(resumed) ==
    IF resumed THEN {"returns", "raises"} ELSE {"suspends", "returns", "raises"}

\* the main task is suspended until its future is resolved
Suspend ==
    /\ dw_waiting' = TRUE
    /\ loop_running' = "loop"

\* one operation of the try block, awaited by the main task
AwaitStage ==
    /\ loop_running = "main"
    /\ dw_pc = "try"
    /\ \E outcome \in AwaitOutcomes(dw_resumed) :
          CASE outcome = "suspends" ->
                 /\ Suspend
                 /\ UNCHANGED <<dw_pc, dw_stage, dw_resumed, dw_browser, dw_context, dw_failed,
                                workflow_summaries>>
            [] outcome = "returns" ->
                 /\ dw_browser' = (dw_browser \/ Stages[dw_stage] = "_launch_browser")
                 /\ dw_context' = (dw_context \/ Stages[dw_stage] = "create_context")
                 /\ dw_resumed' = FALSE
                 /\ IF dw_stage = Len(Stages)
                    THEN /\ workflow_summaries' = Append(workflow_summaries, "final")
                         /\ dw_pc' = "cleanup_context"
                         /\ UNCHANGED dw_stage
                    ELSE /\ dw_stage' = dw_stage + 1
                         /\ UNCHANGED <<dw_pc, workflow_summaries>>
                 /\ UNCHANGED <<dw_waiting, loop_running, dw_failed>>
            [] outcome = "raises" ->
                 /\ dw_pc' = "except"
                 /\ dw_failed' = TRUE
                 /\ dw_resumed' = FALSE
                 /\ UNCHANGED <<dw_stage, dw_waiting, loop_running, dw_browser, dw_context,
                                workflow_summaries>>
    /\ UNCHANGED <<cleanup_suspended, loop_ready, loop_batch, loop_stopping, save_task>>

\* _create_error_summary, lines 228-242: the save is handed to a new task,
\* whose first step joins the queue of ready callbacks
CreateErrorSummary ==
    /\ loop_running = "main"
    /\ dw_pc = "except"
    /\ save_task' = "pending"
    /\ loop_ready' = Append(loop_ready, "save")
    /\ dw_pc' = "cleanup_context"
    /\ UNCHANGED <<dw_stage, dw_waiting, dw_resumed, dw_browser, dw_context, dw_failed,
                   cleanup_suspended, loop_running, loop_batch, loop_stopping,
                   workflow_summaries>>

\* _cleanup, lines 246-248: the context is closed if there is one
CleanupContext ==
    /\ loop_running = "main"
    /\ dw_pc = "cleanup_context"
    /\ IF dw_context
       THEN \E outcome \in AwaitOutcomes(dw_resumed) :
              CASE outcome = "suspends" ->
                     /\ Suspend
                     /\ cleanup_suspended' = TRUE
                     /\ UNCHANGED <<dw_pc, dw_resumed>>
                [] outcome = "returns" ->
                     /\ dw_pc' = "cleanup_browser"
                     /\ dw_resumed' = FALSE
                     /\ UNCHANGED <<dw_waiting, loop_running, cleanup_suspended>>
                [] outcome = "raises" ->
                     /\ dw_pc' = "return"
                     /\ dw_resumed' = FALSE
                     /\ UNCHANGED <<dw_waiting, loop_running, cleanup_suspended>>
       ELSE /\ dw_pc' = "cleanup_browser"
            /\ UNCHANGED <<dw_waiting, loop_running, cleanup_suspended, dw_resumed>>
    /\ UNCHANGED <<dw_stage, dw_browser, dw_context, dw_failed, loop_ready, loop_batch,
                   loop_stopping, save_task, workflow_summaries>>

\* _cleanup, lines 249-253: the browser is closed if there is one
CleanupBrowser ==
    /\ loop_running = "main"
    /\ dw_pc = "cleanup_browser"
    /\ IF dw_browser
       THEN \E outcome \in AwaitOutcomes(dw_resumed) :
              CASE outcome = "suspends" ->
                     /\ Suspend
                     /\ cleanup_suspended' = TRUE
                     /\ UNCHANGED <<dw_pc, dw_resumed>>
                [] OTHER ->
                     /\ dw_pc' = "return"
                     /\ dw_resumed' = FALSE
                     /\ UNCHANGED <<dw_waiting, loop_running, cleanup_suspended>>
       ELSE /\ dw_pc' = "return"
            /\ UNCHANGED <<dw_waiting, loop_running, cleanup_suspended, dw_resumed>>
    /\ UNCHANGED <<dw_stage, dw_browser, dw_context, dw_failed, loop_ready, loop_batch,
                   loop_stopping, save_task, workflow_summaries>>

\* a main task whose end stops the loop before any callback that is ready
WorkflowReturnsStopsAtOnce ==
    /\ loop_running = "main"
    /\ dw_pc = "return"
    /\ dw_pc' = "finished"
    /\ loop_running' = "loop"
    /\ loop_stopping' = TRUE
    /\ loop_batch' = 0
    /\ UNCHANGED <<dw_stage, dw_waiting, dw_resumed, dw_browser, dw_context, dw_failed,
                   cleanup_suspended, loop_ready, save_task, workflow_summaries>>

\* run_complete_workflow returns to main(), lines 325-333, which prints and
\* returns: the main task is done and the callback that stops the loop joins
\* the queue of ready callbacks
WorkflowReturns ==
    /\ loop_running = "main"
    /\ dw_pc = "return"
    /\ dw_pc' = "finished"
    /\ loop_running' = "loop"
    /\ loop_ready' = Append(loop_ready, "stop")
    /\ UNCHANGED <<dw_stage, dw_waiting, dw_resumed, dw_browser, dw_context, dw_failed,
                   cleanup_suspended, loop_batch, loop_stopping, save_task,
                   workflow_summaries>>

\* the future the main task waits for is resolved: its next step is ready
FutureResolved ==
    /\ loop_running = "loop"
    /\ loop_batch = 0
    /\ dw_waiting
    /\ dw_waiting' = FALSE
    /\ dw_resumed' = TRUE
    /\ loop_ready' = Append(loop_ready, "main")
    /\ UNCHANGED <<dw_pc, dw_stage, dw_browser, dw_context, dw_failed, cleanup_suspended,
                   loop_running, loop_batch, loop_stopping, save_task, workflow_summaries>>

\* an iteration of the loop takes the callbacks that are ready now; those
\* that become ready while it runs wait for the next iteration
RunOnce ==
    /\ loop_running = "loop"
    /\ loop_batch = 0
    /\ ~loop_stopping
    /\ loop_ready # <<>>
    /\ loop_batch' = Len(loop_ready)
    /\ UNCHANGED <<dw_pc, dw_stage, dw_waiting, dw_resumed, dw_browser, dw_context, dw_failed,
                   cleanup_suspended, loop_running, loop_ready, loop_stopping, save_task,
                   workflow_summaries>>

\* the loop runs the oldest ready callback: a step of the main task, the
\* only step of the save task (save_workflow_summary, data_model.py lines
\* 70-84, awaits nothing), or the call of stop()
RunCallback ==
    /\ loop_running = "loop"
    /\ loop_batch > 0
    /\ loop_ready' = Tail(loop_ready)
    /\ loop_batch' = loop_batch - 1
    /\ CASE Head(loop_ready) = "main" ->
              /\ loop_running' = "main"
              /\ UNCHANGED <<save_task, workflow_summaries, loop_stopping>>
         [] Head(loop_ready) = "save" ->
              /\ save_task' = "done"
              /\ workflow_summaries' = Append(workflow_summaries, "error")
              /\ UNCHANGED <<loop_running, loop_stopping>>
         [] Head(loop_ready) = "stop" ->
              /\ loop_stopping' = TRUE
              /\ UNCHANGED <<loop_running, save_task, workflow_summaries>>
    /\ UNCHANGED <<dw_pc, dw_stage, dw_waiting, dw_resumed, dw_browser, dw_context, dw_failed,
                   cleanup_suspended>>

\* the loop leaves run_forever after the iteration in which stop() was
\* called; asyncio.run then cancels the tasks that are not done and closes
LoopStops ==
    /\ loop_running = "loop"
    /\ loop_batch = 0
    /\ loop_stopping
    /\ loop_running' = "closed"
    /\ save_task' = IF save_task = "pending" THEN "cancelled" ELSE save_task
    /\ loop_ready' = <<>>
    /\ UNCHANGED <<dw_pc, dw_stage, dw_waiting, dw_resumed, dw_browser, dw_context, dw_failed,
                   cleanup_suspended, loop_batch, loop_stopping, workflow_summaries>>

\* asyncio.run(main()), line 337: the main task is ready, a DiscoveryWorkflow
\* is constructed (lines 39-45) without a browser or a context
LoopInit ==
    /\ dw_pc = "try"
    /\ dw_stage = 1
    /\ dw_waiting = FALSE
    /\ dw_resumed = FALSE
    /\ dw_browser = FALSE
    /\ dw_context = FALSE
    /\ dw_failed = FALSE
    /\ cleanup_suspended = FALSE
    /\ loop_running = "loop"
    /\ loop_ready = <<"main">>
    /\ loop_batch = 0
    /\ loop_stopping = FALSE
    /\ save_task = "none"
    /\ workflow_summaries = <<>>

\* no event loop, for the runs that do not use one
LoopIdle ==
    /\ dw_pc = "finished"
    /\ dw_stage = 1
    /\ dw_waiting = FALSE
    /\ dw_resumed = FALSE
    /\ dw_browser = FALSE
    /\ dw_context = FALSE
    /\ dw_failed = FALSE
    /\ cleanup_suspended = FALSE
    /\ loop_running = "closed"
    /\ loop_ready = <<>>
    /\ loop_batch = 0
    /\ loop_stopping = FALSE
    /\ save_task = "none"
    /\ workflow_summaries = <<>>

\* the bulk run idle, for the runs that do not use it
ConnIdle == ConnInit /\ n_prospects = 0 /\ max_requests = 0

vars == <<connVars, detVars, statVars, discVars, searchVars, workflowVars, loopVars>>

nonConnVars == <<detVars, statVars, discVars, searchVars, workflowVars, loopVars>>
nonDetVars == <<connVars, statVars, discVars, searchVars, workflowVars, loopVars>>
nonStatVars == <<connVars, detVars, discVars, searchVars, workflowVars, loopVars>>
nonDiscVars == <<connVars, detVars, statVars, searchVars, workflowVars, loopVars>>
nonSearchVars == <<connVars, detVars, statVars, discVars, workflowVars, loopVars>>
nonWorkflowVars == <<connVars, detVars, statVars, discVars, searchVars, loopVars>>
nonLoopVars == <<connVars, detVars, statVars, discVars, searchVars, workflowVars>>

\* ---- the bulk connection run of a ConnectionManager as constructed ----
Init == ConnInit /\ DetInit /\ StatInit /\ DiscIdle /\ SearchIdle /\ WorkflowIdle /\ LoopIdle

Next ==
    \/ BulkLoop /\ UNCHANGED nonConnVars
    \/ Navigate /\ UNCHANGED nonConnVars
    \/ ExtractProfileData /\ UNCHANGED nonConnVars
    \/ ValidateProfileData /\ UNCHANGED nonConnVars
    \/ ReturnResult /\ UNCHANGED nonConnVars

Spec == Init /\ [][Next]_vars

\* ---- the bulk connection run of a ConnectionManager whose scraper's
\* profile_data holds any context: the steps of send_connection_request after
\* line 54 run only from such a state ----
InitPreloaded == ConnStart /\ profile_data \in Contexts /\ DetInit /\ StatInit /\ DiscIdle /\ SearchIdle /\ WorkflowIdle /\ LoopIdle

NextPreloaded ==
    \/ BulkLoop /\ UNCHANGED nonConnVars
    \/ Navigate /\ UNCHANGED nonConnVars
    \/ ExtractProfileData /\ UNCHANGED nonConnVars
    \/ ValidateProfileData /\ UNCHANGED nonConnVars
    \/ GenerateMessage /\ UNCHANGED nonConnVars
    \/ FindConnectButton /\ UNCHANGED nonConnVars
    \/ ClickConnect /\ UNCHANGED nonConnVars
    \/ HandleConnectionModal /\ UNCHANGED nonConnVars
    \/ ReturnResult /\ UNCHANGED nonConnVars

SpecPreloaded == InitPreloaded /\ [][NextPreloaded]_vars

\* ---- the finders alone, called any number of times ----
InitResolver == ConnIdle /\ DetInit /\ StatInit /\ DiscIdle /\ SearchIdle /\ WorkflowIdle /\ LoopIdle

NextResolver ==
    \/ FinderCall /\ UNCHANGED nonDetVars
    \/ FinderStep /\ UNCHANGED nonDetVars

SpecResolver == InitResolver /\ [][NextResolver]_vars

\* ---- check_connection_status alone, called any number of times ----
InitStatus == ConnIdle /\ DetInit /\ StatInit /\ DiscIdle /\ SearchIdle /\ WorkflowIdle /\ LoopIdle

NextStatus ==
    \/ CheckConnectionStatus /\ UNCHANGED nonStatVars
    \/ StatusProbe /\ UNCHANGED nonStatVars

SpecStatus == InitStatus /\ [][NextStatus]_vars

\* ---- discovery runs, each followed by one of the two persistence steps ----
InitDiscovery == ConnIdle /\ DetInit /\ StatInit /\ DiscInit /\ SearchIdle /\ WorkflowIdle /\ LoopIdle

NextDiscovery ==
    \/ StartRun /\ UNCHANGED nonDiscVars
    \/ Strategy1 /\ UNCHANGED nonDiscVars
    \/ Strategy2 /\ UNCHANGED nonDiscVars
    \/ ProcessProfile /\ UNCHANGED nonDiscVars
    \/ EndSearch /\ UNCHANGED nonDiscVars
    \/ FinalPass /\ UNCHANGED nonDiscVars
    \/ RunDiscoveryPhaseSave /\ UNCHANGED nonDiscVars
    \/ SaveProspects /\ UNCHANGED nonDiscVars

SpecDiscovery == InitDiscovery /\ [][NextDiscovery]_vars

\* ---- run_discovery_workflow called on new engines and again on the same one ----
InitEngineReuse == ConnIdle /\ DetInit /\ StatInit /\ DiscInit /\ SearchIdle /\ WorkflowIdle /\ LoopIdle

NextEngineReuse ==
    \/ StartRun /\ UNCHANGED nonDiscVars
    \/ DiscoverAgain /\ UNCHANGED nonDiscVars
    \/ Strategy1 /\ UNCHANGED nonDiscVars
    \/ Strategy2 /\ UNCHANGED nonDiscVars
    \/ ProcessProfile /\ UNCHANGED nonDiscVars
    \/ EndSearch /\ UNCHANGED nonDiscVars
    \/ FinalPass /\ UNCHANGED nonDiscVars
    \/ SaveProspects /\ UNCHANGED nonDiscVars

SpecEngineReuse == InitEngineReuse /\ [][NextEngineReuse]_vars

\* ---- searches of a SearchStrategies over any result page ----
InitSearch == ConnIdle /\ DetInit /\ StatInit /\ DiscIdle /\ SearchInit /\ WorkflowIdle /\ LoopIdle

NextSearchStep ==
    \/ SearchByJobTitleAndLocation /\ UNCHANGED nonSearchVars
    \/ SearchByCompanyAndJobTitle /\ UNCHANGED nonSearchVars
    \/ NextSearch /\ UNCHANGED nonSearchVars

SpecSearch == InitSearch /\ [][NextSearchStep]_vars

\* ---- the finders of an ElementDetector that loaded any configuration ----
InitConfigured ==
    /\ ConnIdle /\ DetStart /\ selectors_config \in SelectorConfigs
    /\ StatInit /\ DiscIdle /\ SearchIdle /\ WorkflowIdle /\ LoopIdle

NextConfigured ==
    \/ FinderCall /\ UNCHANGED nonDetVars
    \/ FinderStep /\ UNCHANGED nonDetVars

SpecConfigured == InitConfigured /\ [][NextConfigured]_vars

\* ---- a bulk connection run, or the discovery runs of a process, in which
\* every awaited call returns: some step of the pipeline is always taken
\* while one is possible ----
\* the longest bulk run: the largest list and cap, over a scraper whose
\* context is sufficient, so that every attempt goes through all its steps
SufficientContext ==
    extract_fields(ProfileData,
                   CHOOSE page \in Prospects :
                       validate_profile_data(extract_fields(ProfileData, page, 1)), 1)
LongestBulkRun ==
    /\ n_prospects = MaxProspects
    /\ max_requests = MaxRequests
    /\ profile_data = SufficientContext

\* the last discovery run of a process, with the largest caps
LongestDiscovery ==
    /\ max_prospects = MaxProspectCap
    /\ max_searches = MaxSearchCap

InitTermination ==
    \/ /\ ConnStart /\ LongestBulkRun
       /\ DetInit /\ StatInit /\ DiscOver /\ SearchIdle /\ WorkflowIdle /\ LoopIdle
    \/ /\ ConnIdle
       /\ DetInit /\ StatInit /\ DiscInit /\ LongestDiscovery /\ SearchIdle /\ WorkflowIdle /\ LoopIdle

NextTermination ==
    \/ BulkLoop /\ UNCHANGED nonConnVars
    \/ Navigate /\ UNCHANGED nonConnVars
    \/ ExtractProfileData /\ UNCHANGED nonConnVars
    \/ ValidateProfileData /\ UNCHANGED nonConnVars
    \/ GenerateMessage /\ UNCHANGED nonConnVars
    \/ FindConnectButton /\ UNCHANGED nonConnVars
    \/ ClickConnect /\ UNCHANGED nonConnVars
    \/ HandleConnectionModal /\ UNCHANGED nonConnVars
    \/ ReturnResult /\ UNCHANGED nonConnVars
    \/ StartRun /\ UNCHANGED nonDiscVars
    \/ Strategy1 /\ UNCHANGED nonDiscVars
    \/ Strategy2 /\ UNCHANGED nonDiscVars
    \/ ProcessProfile /\ UNCHANGED nonDiscVars
    \/ EndSearch /\ UNCHANGED nonDiscVars
    \/ FinalPass /\ UNCHANGED nonDiscVars
    \/ RunDiscoveryPhaseSave /\ UNCHANGED nonDiscVars
    \/ SaveProspects /\ UNCHANGED nonDiscVars

SpecTermination ==
    InitTermination /\ [][NextTermination]_vars /\ WF_vars(NextTermination)

\* ---- calls of the entry points of one LinkedInAutomationWorkflow ----
InitWorkflow == ConnIdle /\ DetInit /\ StatInit /\ DiscIdle /\ SearchIdle /\ WorkflowInit /\ LoopIdle

NextWorkflow ==
    \/ RunWorkflow /\ UNCHANGED nonWorkflowVars
    \/ RunSingleRequest /\ UNCHANGED nonWorkflowVars
    \/ WorkflowReturned /\ UNCHANGED nonWorkflowVars

SpecWorkflow == InitWorkflow /\ [][NextWorkflow]_vars

\* ---- one run of the discovery pipeline under asyncio.run ----
InitLoop ==
    /\ ConnIdle /\ DetInit /\ StatInit /\ DiscIdle /\ SearchIdle /\ WorkflowIdle
    /\ LoopInit

NextLoop ==
    \/ RunOnce /\ UNCHANGED nonLoopVars
    \/ RunCallback /\ UNCHANGED nonLoopVars
    \/ FutureResolved /\ UNCHANGED nonLoopVars
    \/ AwaitStage /\ UNCHANGED nonLoopVars
    \/ CreateErrorSummary /\ UNCHANGED nonLoopVars
    \/ CleanupContext /\ UNCHANGED nonLoopVars
    \/ CleanupBrowser /\ UNCHANGED nonLoopVars
    \/ WorkflowReturns /\ UNCHANGED nonLoopVars
    \/ LoopStops /\ UNCHANGED nonLoopVars

SpecLoop == InitLoop /\ [][NextLoop]_vars

\* ------------------------------------------------------------------------
\* Properties of the bulk connection run (Spec)
\* ------------------------------------------------------------------------
InAttempt == pc \in {"goto", "extract", "validate", "generate", "find", "click", "modal", "ret"}

C1_Score ==
      (IF profile_data.summary # 0 THEN 2 ELSE 0)
    + (IF profile_data.skills # {} THEN 1 ELSE 0)
    + (IF profile_data.experience # {} THEN 2 ELSE 0)
    + (IF profile_data.education # {} THEN 1 ELSE 0)
    + (IF profile_data.recent_posts # {} THEN 2 ELSE 0)

C1_Insufficient ==
    \/ C1_Score < 3
    \/ profile_data.name = 0
    \/ profile_data.job_title = 0
    \/ profile_data.company = 0

\* C1: an attempt whose extracted context scores below 3 (summary 2, skills 1,
\* experience 2, education 1, recent activity 2) or lacks name, job title or
\* company goes from the validation straight to its return, failed with the
\* insufficient-data error and without a call of the message generator; and
\* the generator is only ever called in an attempt whose context is sufficient.
C1_SufficiencyGating ==
    /\ [][(pc = "validate" /\ C1_Insufficient)
            => /\ pc' = "ret"
               /\ ~result'.success
               /\ result'.error = "Insufficient profile data for personalization"
               /\ gen_calls' = 0]_vars
    /\ [](gen_calls > 0 => ~C1_Insufficient)

C1_Witness ==
    /\ pc = "ret"
    /\ result.error = "Insufficient profile data for personalization"
    /\ ~result.success
    /\ gen_calls = 0
    /\ profile_data.name # 0 /\ profile_data.job_title # 0 /\ profile_data.company # 0
    /\ C1_Score = 2

\* C3: within one connection attempt the connect-button lookup of the
\* resolver is called at most 3 times, however its calls end.
C3_RetryBound == find_calls <= 3

C3_Witness ==
    /\ pc = "ret"
    /\ result.error = "Could not find Connect button"
    /\ find_calls = 3

C4_Successes == Cardinality({k \in DOMAIN results : results[k].success})

\* C4: a bulk run with cap max never starts more than max attempts and never
\* records more than max successes; over a list longer than max whose attempts
\* all succeed it performs exactly max attempts.
C4_BulkCapRespect ==
    /\ Len(results) + (IF InAttempt THEN 1 ELSE 0) <= max_requests
    /\ successful_requests <= max_requests
    /\ C4_Successes <= max_requests
    /\ (pc = "done" /\ n_prospects > max_requests /\ C4_Successes = Len(results))
          => Len(results) = max_requests

C4_Witness ==
    /\ pc = "done"
    /\ n_prospects > max_requests
    /\ max_requests = MaxRequests
    /\ Len(results) = max_requests
    /\ C4_Successes = Len(results)

\* C5: in a bulk run, when the attempt before the current one ended with an
\* error text that holds a rate-limit phrase (matched in lower case), a cooldown
\* of 300-900 s has been awaited before the current attempt started.
C5_RateLimitCooldown ==
    (InAttempt /\ Len(results) > 0 /\ handle_rate_limiting(results[Len(results)].error) # {})
        => \E k \in DOMAIN waits : waits[k] \in 300..900

C11_FailureCarriesError ==
    (pc = "ret" /\ ~result.success) => (result.error # "" /\ result.message_sent = <<>>)

\* C12: in a bulk run of a constructed manager, an attempt whose pages all
\* loaded ends as insufficient-data when the profile lacks a company and does
\* not end as insufficient-data when the profile is complete (it goes on to
\* locate the connect control: button-not-found after 3 lookups, or sent); the
\* run's success count is the number of results with success = true.
C12_EndToEndScenario ==
    /\ (pc = "ret" /\ extract_ok /\ prospect = NoCompanyPage)
          => result.error = "Insufficient profile data for personalization"
    /\ (pc = "ret" /\ extract_ok /\ prospect = FullPage)
          => result.error # "Insufficient profile data for personalization"
    /\ successful_requests = C4_Successes

C14_OrderAndCooldown ==
    InAttempt =>
        /\ result.profile_url = Len(results) + 1
        /\ i = Len(results)
        /\ Len(results) = 0 => waits = <<>>
        /\ Len(results) > 0 => (Len(waits) = 1 /\ waits[1] >= 30 /\ waits[1] <= 120)

C14_Witness ==
    /\ pc = "goto"
    /\ Len(results) = 1
    /\ result.profile_url = 2
    /\ waits = <<InterRequestDelayMax>>

\* ------------------------------------------------------------------------
\* Properties of the finders (SpecResolver)
\* ------------------------------------------------------------------------
\* C2: the strategies are evaluated in the finder's fixed order, and the first
\* one that gives a visible element ends the call: the finder returns exactly
\* that element and no strategy after it is evaluated.
C2_ResolverShortCircuit ==
    /\ \A j \in DOMAIN det_trace : det_trace[j].strategy = Strategies(det_text)[j]
    /\ \A j \in DOMAIN det_trace :
          det_trace[j].seen = "visible"
             => /\ j = Len(det_trace)
                /\ det_pc = "returned"
                /\ det_returned = det_trace[j].handle
                /\ det_returned # NoHandle

C2_Witness ==
    /\ det_pc = "returned"
    /\ Len(Strategies(det_text)) > 2
    /\ Len(det_trace) = 2
    /\ det_trace[1].seen = "hidden"
    /\ det_trace[2].seen = "visible"
    /\ det_returned = det_trace[2].handle

\* ------------------------------------------------------------------------
\* Properties of check_connection_status (SpecStatus)
\* ------------------------------------------------------------------------
C15_StatusOfProbe(j) ==
    IF j <= 3 THEN "connected" ELSE IF j <= 6 THEN "pending" ELSE "connect"

\* C15: a call that has returned gave "error" exactly when the page did not
\* load; otherwise the selectors were probed in the order connected, pending,
\* connect, the probing stopped at the first visible one and its status was
\* returned (a probe that raised counts as not visible), and "unknown" was
\* returned when all probes were made and none was visible.
C15_StatusCheck ==
    st_pc = "returned" =>
        /\ (st_status = "error") <=> ~st_loaded
        /\ st_loaded =>
              /\ \A j \in 1..(Len(st_trace) - 1) : st_trace[j] # "visible"
              /\ IF st_trace # <<>> /\ st_trace[Len(st_trace)] = "visible"
                 THEN st_status = C15_StatusOfProbe(Len(st_trace))
                 ELSE st_status = "unknown" /\ Len(st_trace) = 8

C15_Witness ==
    /\ st_pc = "returned"
    /\ st_loaded
    /\ st_trace = <<"hidden", "raised", "hidden", "raised", "visible">>
    /\ st_status = "pending"

\* ------------------------------------------------------------------------
\* Properties of the discovery runs (SpecDiscovery)
\* ------------------------------------------------------------------------
UniqueUrls(prospects) == Len(prospects) = Cardinality(urls(prospects))

\* C6 (as amended): after any number of discovery runs, each followed by one
\* of the persistence steps, the persisted prospects hold every profile URL at
\* most once: as many entries as distinct URLs.
C6_PersistedUrlsUnique == UniqueUrls(store)

C6_Witness ==
    /\ dpc = "idle"
    /\ runs = 2
    /\ ~flaky
    /\ duplicates_found > 0
    /\ Len(store) = 2
    /\ UniqueUrls(store)

\* C6 (as stated): the persisted prospects hold every URL at most once, and
\* the persistence step of a second or later run over the same surface (no
\* search and no profile visit failed at any time) adds no URL to them.
C6_DedupIdempotence ==
    /\ [](UniqueUrls(store))
    /\ [][(dpc = "returned" /\ runs >= 2 /\ ~flaky) => urls(store') \subseteq urls(store)]_vars

\* C7 (as amended): the list discover_prospects returns holds no two entries
\* with the same URL, and each entry is the first one with its URL among the
\* entries that were accepted into the accumulator.
C7_ReturnedUniqueFirstAccepted ==
    dpc = "returned" =>
        /\ UniqueUrls(discovered_prospects)
        /\ \A k \in DOMAIN discovered_prospects :
              \E j \in DOMAIN pre_final :
                 /\ pre_final[j] = discovered_prospects[k]
                 /\ \A h \in 1..(j - 1) :
                       pre_final[h].linkedin_url # pre_final[j].linkedin_url

C7_Witness ==
    /\ dpc = "returned"
    /\ Len(pre_final) > Len(discovered_prospects)
    /\ Len(discovered_prospects) > 0
    /\ \E j \in DOMAIN pre_final : pre_final[j] \notin first_extracted

\* C7 (as stated): the returned list holds no two entries with the same URL,
\* and each entry is the first one extracted with its URL in the run.
C7_ReturnedUniqueFirstExtracted ==
    dpc = "returned" =>
        /\ UniqueUrls(discovered_prospects)
        /\ \A k \in DOMAIN discovered_prospects : discovered_prospects[k] \in first_extracted

\* C8: at every point of a discovery run the accumulator holds no two entries
\* with the same profile URL.
C8_AccumulatorUnique == UniqueUrls(discovered_prospects)

C16_SearchIssued == dpc = "search" /\ dpc' = "process"

C17_CooldownBetweenSearches ==
    [][(dpc = "search" /\ dpc' = "process" /\ search_count > 0)
          => (cooldown >= 180 /\ cooldown <= 600)]_vars

\* C17 (as stated): the same, and no search navigation follows another one
\* without that cooldown: a search navigates once.
C17_CooldownBetweenNavigations ==
    /\ [][(dpc = "search" /\ dpc' = "process" /\ search_count > 0)
            => (cooldown >= SearchCooldownMin /\ cooldown <= SearchCooldownMax)]_vars
    /\ [](nav_tries <= 1)

C17_Witness ==
    /\ dpc = "process"
    /\ d_strategy = 2
    /\ q = 1
    /\ search_count = Len(Queries1)
    /\ nav_tries = 2
    /\ pending # <<>>

\* what the structural validation asks of an entry, spelled on its characters
ProfileShapedUrl(url) ==
    /\ Len(Chars(url)) >= 4
    /\ SubSeq(Chars(url), 1, 4) = <<"h", "t", "t", "p">>
    /\ \E k \in 1..(Len(Chars(url)) - 3) : SubSeq(Chars(url), k, k + 3) = <<"/", "i", "n", "/">>

NonTrivial(s) == Len(Strip(Chars(s))) >= 2

StructurallyValid(p) ==
    /\ ProfileShapedUrl(p.linkedin_url)
    /\ NonTrivial(p.name)
    /\ NonTrivial(p.job_title)
    /\ NonTrivial(p.location)

\* C18: every prospect a discovery run returns, and every entry of the store
\* after a save of the discovery phase, has an absolute URL containing /in/
\* and a name, job title and location of at least two characters once stripped.
C18_OnlyValidPersisted ==
    /\ [](dpc = "returned"
            => \A k \in DOMAIN discovered_prospects : StructurallyValid(discovered_prospects[k]))
    /\ [][store' # store => \A k \in DOMAIN store' : StructurallyValid(store'[k])]_vars

\* a run that met a candidate failing the validation has saved its prospects
C18_Witness ==
    /\ dpc = "idle"
    /\ store # <<>>
    /\ urls(store) = urls(discovered_prospects)
    /\ \E e \in first_extracted : ~StructurallyValid(e)
    /\ \E e \in first_extracted : e.linkedin_url \in PublicUrls /\ ~ProfileShapedUrl(e.linkedin_url)

\* C19: a step never removes an entry from the prospect store: every entry the
\* store held before is held after, at or after its old position's order, and
\* what is added has a URL the store did not hold.
C19_StoreOnlyGrows ==
    [][/\ \A k \in DOMAIN store : \E j \in DOMAIN store' : store'[j] = store[k]
       /\ Len(store') >= Len(store)
       /\ \A j \in DOMAIN store' :
             (\A k \in DOMAIN store : store[k] # store'[j])
                => store'[j].linkedin_url \notin urls(store)]_vars

\* every value of a context was read from the page of prospect `who`
OnlyFromPageOf(pd, who) ==
    /\ \A f \in {"name", "job_title", "company", "summary"} : pd[f] \in {0, who}
    /\ \A f \in {"skills", "experience", "education", "recent_posts"} : pd[f] \subseteq {who}

C21_RunNeverAborts ==
    /\ pc # "raised"
    /\ (pc = "done" => Len(results) = bulk_limit(n_prospects, max_requests))

\* C22: a failed result names the prospect's URL, carries the elapsed time of
\* the attempt (time_taken > 0), and, when the connect control was not found,
\* a retry_count that reflects the lookups made.
C22_FailureAudit ==
    (pc = "ret" /\ ~result.success)
        => /\ result.profile_url = i + 1
           /\ result.time_taken > 0
           /\ (result.error = "Could not find Connect button" => result.retry_count > 0)

\* C23: a strategy whose probe or whose handle raised counts as no match: the
\* finder goes on to the next strategy, and a call in which no strategy gave a
\* visible element has tried every strategy and returns none; the finder is
\* never left by an exception.
C23_ResolverExceptionSafe ==
    /\ det_pc \in {"idle", "run", "returned"}
    /\ \A j \in DOMAIN det_trace :
          (det_trace[j].seen # "visible" /\ j < Len(Strategies(det_text)))
             => (det_pc = "run" \/ Len(det_trace) > j)
    /\ (det_pc = "returned" /\ \A j \in DOMAIN det_trace : det_trace[j].seen # "visible")
          => (det_returned = NoHandle /\ Len(det_trace) = Len(Strategies(det_text)))

\* a call returned none although its first strategy's handle raised and a
\* selector probe of its second strategy raised
C23_Witness ==
    /\ det_pc = "returned"
    /\ det_returned = NoHandle
    /\ Len(det_trace) = Len(Strategies(det_text))
    /\ det_trace[1].seen = "raised"
    /\ det_trace[2].probe_raised
    /\ det_trace[2].seen = "none"

\* what the lookups of an attempt have slept: one sleep of 1-3 s after every
\* lookup that gave no visible button
C24_BackoffAfterEveryMiss ==
    /\ backoffs = attempt
    /\ (pc = "find" /\ attempt > 0) => (backoff >= 1 /\ backoff <= 3)
    /\ (pc # "find" \/ attempt = 0) => backoff = 0

FixedErrors ==
    {"Insufficient profile data for personalization", "Could not find Connect button",
     "Failed to send message in connection modal"}

\* C25: when the first page.goto of an attempt fails, the attempt ends failed
\* with an error that names the failure (not empty, not another path's text),
\* and no extraction, sufficiency check, generation, lookup or click happens.
C25_NavigationFailure ==
    [][(pc = "goto" /\ pc' = "ret")
          => /\ ~result'.success
             /\ result'.error # ""
             /\ result'.error \notin FixedErrors
             /\ profile_data' = profile_data
             /\ gen_calls' = 0 /\ find_calls' = 0
             /\ ~connect_clicked' /\ ~modal_entered' /\ ~send_clicked']_vars

C27_CountersScopedToRun ==
    [][(dpc = "idle" /\ dpc' = "search")
          => /\ discovered_prospects' = <<>>
             /\ duplicates_found' = 0
             /\ validation_errors' = 0]_vars

\* C28: no entry whose job title lacks every relevance keyword is accepted,
\* and the engine's count of off-target entries is the number of entries the
\* run dropped as off-target.
C28_OffTargetCountedApart ==
    /\ \A k \in DOMAIN discovered_prospects :
          \E kw \in relevant_keywords : InLowerStr(kw, discovered_prospects[k].job_title)
    /\ (dpc = "returned") => off_target_count = off_target_dropped

\* C29: the profile page is navigated to only for entries that passed the
\* duplicate test and the validation, no profile URL is navigated to twice in
\* one run, and every accumulated entry's visit found a profile indicator.
C29_VisitedOnceAfterChecks ==
    /\ visit_log.revisited = {}
    /\ \A k \in DOMAIN discovered_prospects :
          discovered_prospects[k].linkedin_url \in visit_log.with_marker
    /\ visit_log.visited \cap existing_urls = {}

\* C30: _validate_search_results answers valid exactly when is_visible was
\* True for one of the positive selectors; no positive selector is probed
\* after a negative one and a negative selector is probed only after all
\* positive ones; with no positive marker showing, a page is invalid whether
\* a negative marker shows or none does; and a search whose page was not
\* found valid returns no entries without calling the extraction.
C30_SearchPageValidation ==
    (se_pc = "returned" /\ se_valid # "not_run") =>
        /\ (se_valid = "valid") <=> any_visible(se_page.positive)
        /\ \A a, b \in DOMAIN se_probes :
              (a < b /\ se_probes[a].kind = "negative") => se_probes[b].kind = "negative"
        /\ (\E a \in DOMAIN se_probes : se_probes[a].kind = "negative") =>
              \A k \in 1..NumSearchIndicators :
                  \E a \in DOMAIN se_probes :
                      se_probes[a] = [kind |-> "positive", selector |-> k]
        /\ (~any_visible(se_page.positive) /\ any_visible(se_page.negative)) =>
              se_valid = "invalid"
        /\ (~any_visible(se_page.positive) /\ ~any_visible(se_page.negative)) =>
              se_valid = "invalid"
        /\ (se_valid = "invalid") => (se_profiles = <<>> /\ ~se_extracted)

\* a page with result items and a LinkedIn title but no marker of either
\* kind was searched: nine probes, invalid, nothing extracted
C30_Witness ==
    /\ se_pc = "returned"
    /\ se_valid = "invalid"
    /\ ~any_visible(se_page.positive)
    /\ ~any_visible(se_page.negative)
    /\ se_page.title = "has_linkedin"
    /\ se_page.items = <<ItemA1, ItemB>>
    /\ Len(se_probes) = NumSearchIndicators + NumErrorIndicators
    /\ se_profiles = <<>>
    /\ ~se_extracted

\* C39: at every point of a run the entries handed to _process_profile are
\* the accepted entries plus duplicates_found plus validation_errors, so an
\* entry that leaves the accepted list because its URL came earlier in the
\* same run is counted in duplicates_found.
C39_DiscoveryAccounting ==
    handed = Len(discovered_prospects) + duplicates_found + validation_errors

\* C40: a run that left its search loops with the prospect cap reached
\* returns exactly max_prospects entries.
C40_CapCountsDistinct ==
    (dpc = "returned" /\ Len(pre_final) >= max_prospects) =>
        Len(discovered_prospects) = max_prospects

\* C31: a run_workflow call that finds the cookies, the API key or the
\* prospects missing returns having made no page navigation and no
\* connection attempt, with the failure reported in its result.
C31_SetupFailureBeforeBrowsing ==
    (/\ wf_pc = "returned"
     /\ wf_last = "run_workflow"
     /\ (~wf_setup.cookies \/ ~wf_setup.api_key \/ wf_setup.prospects = 0)) =>
        /\ wf_navigations = 0
        /\ wf_attempts = 0
        /\ ~wf_result.success
        /\ wf_result.errors > 0

\* C37: the sent-requests log holds results with success = true only and the
\* failed-requests log results with success = false only.
C37_LogsBySuccessFlag ==
    /\ \A k \in DOMAIN sent_log : sent_log[k].success
    /\ \A k \in DOMAIN failed_log : ~failed_log[k].success

\* C32: a connection attempt that a failed profile navigation ends has called
\* page.goto more than once, and never more often than a search does.
C32_NavigationRetriedBeforeFailure ==
    [][(pc = "goto" /\ pc' = "ret") =>
          (gotos' > 1 /\ gotos' <= NavigateMaxRetries)]_vars

C35_ProbesFromConfiguration ==
    (det_pc = "returned" /\ det_returned # NoHandle) =>
        det_returned \in ConfiguredSelectors(selectors_config, Role(det_text))


\* C36: every entry that the extraction-time validation of the search
\* component accepted, and that a search therefore handed to the discovery
\* engine, is accepted by the validation of the engine as well.
C36_ValidationsAgree ==
    \A k \in DOMAIN pending : ValidProfile[pending[k]]


\* ---- Properties of the run under asyncio.run (SpecLoop) ----

====
